---------------------------- MODULE Spec2Model ----------------------------
(***************************************************************************)
(* Model of the health dashboard: the rule engine (analyzeDiet,            *)
(* analyzeExercise, analyzeSleep in App.tsx), the gamification engine      *)
(* (calculateGamificationState in services/gamificationLogic.ts) and the   *)
(* App component's data state with its recompute effect.                   *)
(*                                                                         *)
(* Units.  JavaScript numbers are modelled by integers in a fixed unit:    *)
(*   vegRatio, proteinRatio, starchRatio : hundredths (0.5 is 50)          *)
(*   sleepDuration                       : minutes (7.5 hours is 450)      *)
(*   date                                : day number; new Date(date)      *)
(*                                         .getTime() is day * MsPerDay    *)
(*   bedTime, wakeTime                   : the string, as a sequence of    *)
(*                                         one-character strings           *)
(* All other numeric fields are the integers of the source.  A comparison  *)
(* of an average with a threshold, sum / n < t, is written sum < t * n;    *)
(* the inputs used are such that the IEEE double computation of the        *)
(* source gives the same verdict (ratios on a grid of quarters, durations  *)
(* on a grid of whole minutes that are multiples of 15, integer counts).   *)
(* Advice titles are the English names of the source's titles; the fixed   *)
(* description texts, the icons and the colours are not modelled.          *)
(***************************************************************************)
EXTENDS Integers, Sequences, FiniteSets, TLC

VARIABLES
    activeTab,        \* App: Tab shown
    dietData,         \* App: DietData[]      (engine harness: the argument)
    exerciseData,     \* App: ExerciseData[]  (engine harness: the argument)
    sleepData,        \* App: SleepData[]     (engine harness: the argument)
    adviceList,       \* App: AdviceItem[]
    gameState,        \* App: GamificationState
    dashboardLayout,  \* App: DashboardLayout
    layoutIsDefault,  \* dashboardLayout is the object DEFAULT_LAYOUT (Object.is)
    storedLayout,     \* localStorage item health_dashboard_layout, or NoItem
    effects,          \* App: the effects React has scheduled and not yet run
    crashed,          \* App: the first render threw, nothing is mounted
    aiReportSummary,  \* App: string
    isGeneratingReport,  \* App: boolean
    reportRequests,   \* the calls of generateWeeklyReportAI made, oldest first
    isEditMode,       \* App: boolean
    showAddMenu,      \* Dashboard: boolean
    now,              \* the clock Date.now() reads, in milliseconds
    dietForm,         \* DietInputView: analyzing, imagePreview, formData
    exerciseForm,     \* ExerciseInputView: data
    sleepForm,        \* SleepInputView: data
    foodRequests,     \* the calls of analyzeFoodImage made, oldest first
    readers,          \* the FileReaders still reading a chosen file
    alerts,           \* the messages shown by alert(), oldest first
    fn,               \* engine harness: the engine function invoked, or "none"
    ret,              \* engine harness: the value that invocation returned
    calls             \* engine harness: the invocations so far, oldest first

vars == <<activeTab, dietData, exerciseData, sleepData, adviceList, gameState,
          dashboardLayout, layoutIsDefault, storedLayout, effects, crashed,
          aiReportSummary, isGeneratingReport, reportRequests, isEditMode, showAddMenu,
          now, dietForm, exerciseForm, sleepForm, foodRequests, readers, alerts,
          fn, ret, calls>>

harnessVars == <<fn, ret, calls>>

reportVars == <<aiReportSummary, isGeneratingReport, reportRequests>>

\* The state of customising the dashboard.
editVars == <<isEditMode, showAddMenu, now>>

\* The state of the three entry forms.
formVars == <<dietForm, exerciseForm, sleepForm, foodRequests, readers, alerts>>

\* The variables of the App and its views that the engines do not touch.
viewVars == <<dashboardLayout, layoutIsDefault, storedLayout, effects, crashed, reportVars,
              editVars, formVars>>

---------------------------------------------------------------------------
(* Generic helpers *)

\* g applied to a value that is evaluated first.
evaluated(a, g(_)) == IF a = a THEN g(a) ELSE a

\* Array.prototype.reduce(f, acc): a left fold, f applied to the elements
\* from the first to the last.  Folding a sequence is folding its second
\* half from the result of folding its first half; that result is
\* evaluated before the second half is entered, which keeps the evaluation
\* shallow.
RECURSIVE reduce(_, _, _)
reduce(f(_, _), s, acc) ==
    IF s = <<>> THEN acc
    ELSE IF Len(s) = 1 THEN f(acc, s[1])
    ELSE evaluated(reduce(f, SubSeq(s, 1, Len(s) \div 2), acc),
                   LAMBDA a : reduce(f, SubSeq(s, (Len(s) \div 2) + 1, Len(s)), a))

\* Array.prototype.filter(p)
RECURSIVE filter(_, _)
filter(p(_), s) ==
    IF s = <<>> THEN <<>>
    ELSE (IF p(Head(s)) THEN <<Head(s)>> ELSE <<>>) \o filter(p, Tail(s))

\* Array.prototype.some(p)
some(p(_), s) == \E i \in 1..Len(s) : p(s[i])

\* All sequences over S of length at most n.
SeqsUpTo(S, n) == UNION {[1..k -> S] : k \in 0..n}

---------------------------------------------------------------------------
(* Time-of-day strings "HH:MM" *)

Digits == <<"0", "1", "2", "3", "4", "5", "6", "7", "8", "9">>

IsDigit(c) == \E i \in 1..10 : Digits[i] = c

DigitValue(c) == (CHOOSE i \in 1..10 : Digits[i] = c) - 1

\* The string a time input holds for hour h and minute m: "HH:MM".
TimeStr(h, m) ==
    <<Digits[(h \div 10) + 1], Digits[(h % 10) + 1], ":",
      Digits[(m \div 10) + 1], Digits[(m % 10) + 1]>>

\* String.prototype.split(':'): the pieces between the colons.
RECURSIVE split(_)
split(s) ==
    IF \A i \in 1..Len(s) : s[i] # ":" THEN <<s>>
    ELSE LET k == CHOOSE i \in 1..Len(s) :
                      s[i] = ":" /\ \A j \in 1..(i - 1) : s[j] # ":"
         IN  <<SubSeq(s, 1, k - 1)>> \o split(SubSeq(s, k + 1, Len(s)))

\* The value of a string of decimal digits, most significant first.
RECURSIVE DecimalValue(_)
DecimalValue(s) ==
    IF s = <<>> THEN 0
    ELSE 10 * DecimalValue(SubSeq(s, 1, Len(s) - 1)) + DigitValue(s[Len(s)])

\* Number(s) for a string of decimal digits; Number("") is 0.
Number(s) == DecimalValue(s)

\* parseInt(s) for a non-empty string of decimal digits.
parseInt(s) == DecimalValue(s)

---------------------------------------------------------------------------
(* Rule engine: App.tsx:63-169 *)

Advice(category, title, priority) ==
    [category |-> category, title |-> title, priority |-> priority]

addVegRatio(sum, d) == sum + d.vegRatio
addProteinRatio(sum, d) == sum + d.proteinRatio
addSugaryDrinksCount(sum, d) == sum + d.sugaryDrinksCount

\* avgVeg < 0.5 || avgProtein < 0.25
UnbalancedNutritionMutant(weeklyData) ==
    /\ reduce(addVegRatio, weeklyData, 0) < 50 * Len(weeklyData)
    /\ reduce(addProteinRatio, weeklyData, 0) < 25 * Len(weeklyData)

UnbalancedNutrition(weeklyData) ==
    \/ reduce(addVegRatio, weeklyData, 0) < 50 * Len(weeklyData)
    \/ reduce(addProteinRatio, weeklyData, 0) < 25 * Len(weeklyData)

\* avgSugary > 0.57, with avgSugary = totalSugary / weeklyData.length
ExcessSugaryDrinksMutant(weeklyData) ==
    LET totalSugary == reduce(addSugaryDrinksCount, weeklyData, 0)
    IN  100 * totalSugary >= 57 * Len(weeklyData)

ExcessSugaryDrinks(weeklyData) ==
    LET totalSugary == reduce(addSugaryDrinksCount, weeklyData, 0)
    IN  100 * totalSugary > 57 * Len(weeklyData)

analyzeDiet(weeklyData) ==
    IF Len(weeklyData) = 0 THEN <<>>
    ELSE (IF UnbalancedNutrition(weeklyData)
            THEN <<Advice("Diet", "unbalanced nutrition", "High")>>
            ELSE <<>>)
      \o (IF ExcessSugaryDrinks(weeklyData)
            THEN <<Advice("Diet", "excess sugary drinks", "Medium")>>
            ELSE <<>>)

addDailySteps(sum, d) == sum + d.dailySteps
addModerateExerciseMinutes(sum, d) == sum + d.moderateExerciseMinutes
addTotalSittingMinutes(sum, d) == sum + d.totalSittingMinutes

\* avgSteps < 8000
InsufficientActivityMutant(weeklyData) ==
    reduce(addDailySteps, weeklyData, 0) <= 8000 * Len(weeklyData)

InsufficientActivity(weeklyData) ==
    reduce(addDailySteps, weeklyData, 0) < 8000 * Len(weeklyData)

\* totalModMin < 180
InsufficientModerateExercise(weeklyData) ==
    reduce(addModerateExerciseMinutes, weeklyData, 0) < 180

\* avgSitting > 480
ExcessiveSitting(weeklyData) ==
    reduce(addTotalSittingMinutes, weeklyData, 0) > 480 * Len(weeklyData)

analyzeExercise(weeklyData) ==
    IF Len(weeklyData) = 0 THEN <<>>
    ELSE (IF InsufficientActivity(weeklyData)
            THEN <<Advice("Exercise", "insufficient activity", "Medium")>>
            ELSE <<>>)
      \o (IF InsufficientModerateExercise(weeklyData)
            THEN <<Advice("Exercise", "insufficient moderate exercise", "High")>>
            ELSE <<>>)
      \o (IF ExcessiveSitting(weeklyData)
            THEN <<Advice("Exercise", "excessive sitting", "Low")>>
            ELSE <<>>)

\* The filter predicate of lateNights (App.tsx:134-137).
IsLateNightMutant(d) ==
    LET hour == Number(split(d.bedTime)[1])
    IN  \/ hour >= 0 /\ hour < 5
        \/ hour = 23 /\ parseInt(split(d.bedTime)[2]) >= 30

IsLateNight(d) ==
    LET hour == Number(split(d.bedTime)[1])
    IN  \/ hour >= 0 /\ hour < 5
        \/ hour = 23 /\ parseInt(split(d.bedTime)[2]) > 30

lateNights(weeklyData) == Len(filter(IsLateNight, weeklyData))

\* The number NaN.  Every other number of the model is 0 or more; a sum
\* with NaN is NaN and a comparison with NaN is false.
NaN == -2

addSleepDuration(sum, d) ==
    IF sum = NaN \/ d.sleepDuration = NaN THEN NaN ELSE sum + d.sleepDuration

\* avgSleep < 7.5
InsufficientSleepMutant(weeklyData) ==
    /\ reduce(addSleepDuration, weeklyData, 0) # NaN
    /\ reduce(addSleepDuration, weeklyData, 0) <= 450 * Len(weeklyData)

InsufficientSleep(weeklyData) ==
    /\ reduce(addSleepDuration, weeklyData, 0) # NaN
    /\ reduce(addSleepDuration, weeklyData, 0) < 450 * Len(weeklyData)

UsedPhone(d) == d.usedPhoneBeforeBed

phoneDays(weeklyData) == Len(filter(UsedPhone, weeklyData))

analyzeSleep(weeklyData) ==
    IF Len(weeklyData) = 0 THEN <<>>
    ELSE (IF lateNights(weeklyData) > 2
            THEN <<Advice("Sleep", "frequent late nights", "High")>>
            ELSE <<>>)
      \o (IF InsufficientSleep(weeklyData)
            THEN <<Advice("Sleep", "insufficient sleep duration", "High")>>
            ELSE <<>>)
      \o (IF phoneDays(weeklyData) > 3
            THEN <<Advice("Sleep", "pre-bed phone use", "Medium")>>
            ELSE <<>>)

---------------------------------------------------------------------------
(* Gamification engine: services/gamificationLogic.ts:3-144 *)

\* Points of one diet entry added to the running total (lines 12-19).
dietPoints(points, d) ==
    points + (IF d.vegRatio >= 30 /\ d.proteinRatio >= 20 THEN 20 ELSE 0)
           + (IF d.sugaryDrinksCount = 0 THEN 10 ELSE 0)
           + (IF d.friedFoodCount = 0 THEN 10 ELSE 0)

\* A slip: the 12000 bonus replaces the 8000 bonus instead of stacking.
exercisePointsMutant(points, e) ==
    points + (IF e.dailySteps >= 12000 THEN 10
              ELSE IF e.dailySteps >= 8000 THEN 15 ELSE 0)
           + (IF e.moderateExerciseMinutes >= 30 THEN 20 ELSE 0)

\* Points of one exercise entry added to the running total (lines 22-29).
exercisePoints(points, e) ==
    points + (IF e.dailySteps >= 8000 THEN 15 ELSE 0)
           + (IF e.dailySteps >= 12000 THEN 10 ELSE 0)
           + (IF e.moderateExerciseMinutes >= 30 THEN 20 ELSE 0)

\* Points of one sleep entry added to the running total (lines 32-37).
sleepPoints(points, s) ==
    points + (IF s.sleepDuration >= 420 /\ s.sleepDuration <= 540 THEN 20 ELSE 0)
           + (IF ~s.usedPhoneBeforeBed THEN 15 ELSE 0)

totalPoints(diets, exercises, sleeps) ==
    reduce(sleepPoints, sleeps,
           reduce(exercisePoints, exercises, reduce(dietPoints, diets, 0)))

pointsPerLevel == 200

\* A slip: levels counted from 0.
levelOfMutant(points) == points \div pointsPerLevel

\* Math.floor(points / pointsPerLevel) + 1
levelOf(points) == (points \div pointsPerLevel) + 1

\* A slip: the percentage is rounded to the nearest integer.
progressOfMutant(points) ==
    ((points % pointsPerLevel) * 100 + (pointsPerLevel \div 2)) \div pointsPerLevel

\* Math.floor(((points % pointsPerLevel) / pointsPerLevel) * 100).  Every
\* total is a multiple of 5, and for those the double computation gives the
\* integer below.
progressOf(points) == ((points % pointsPerLevel) * 100) \div pointsPerLevel

\* new Date(date).getTime(): milliseconds of the day's UTC midnight.
getTime(date) == date * 86400000

\* The comparator of line 83.
compareByDate(a, b) == getTime(a.date) - getTime(b.date)

\* A slip: the list is walked in the order given, without sorting.
sortByDateMutant(s) == s

\* x inserted into a sorted list after every entry that does not compare
\* greater than it.
insertByDate(sorted, x) ==
    LET k == Cardinality({i \in 1..Len(sorted) : compareByDate(sorted[i], x) <= 0})
    IN  SubSeq(sorted, 1, k) \o <<x>> \o SubSeq(sorted, k + 1, Len(sorted))

\* [...sleeps].sort(compareByDate): Array.prototype.sort is stable, so entries
\* of equal date keep their input order.  Computed by insertion.
RECURSIVE sortByDate(_)
sortByDate(s) ==
    IF s = <<>> THEN <<>>
    ELSE insertByDate(sortByDate(SubSeq(s, 1, Len(s) - 1)), s[Len(s)])

\* A slip: a short night does not reset the running streak.
streakStepMutant(st, s) ==
    IF s.sleepDuration >= 420
    THEN [sleepStreak    |-> st.sleepStreak + 1,
          maxSleepStreak |-> IF st.maxSleepStreak >= st.sleepStreak + 1
                             THEN st.maxSleepStreak ELSE st.sleepStreak + 1]
    ELSE st

\* One step of the forEach of lines 85-92.
streakStep(st, s) ==
    IF s.sleepDuration >= 420
    THEN [sleepStreak    |-> st.sleepStreak + 1,
          maxSleepStreak |-> IF st.maxSleepStreak >= st.sleepStreak + 1
                             THEN st.maxSleepStreak ELSE st.sleepStreak + 1]
    ELSE [sleepStreak |-> 0, maxSleepStreak |-> st.maxSleepStreak]

\* Line 83 works on arrays by reference.  A heap maps references to
\* arrays; an expression evaluates to the heap it leaves and the reference
\* of its value.

\* A slip: sleeps.sort(...), the array itself in place of a copy.
spreadMutant(heap, ref) == [heap |-> heap, ref |-> ref]

\* [...array]: a new array with the elements of the array at ref.
spread(heap, ref) == [heap |-> heap @@ ("copy" :> heap[ref]), ref |-> "copy"]

\* array.sort(compareByDate): Array.prototype.sort sorts the array in place
\* and returns it.
sort(array) ==
    [heap |-> [array.heap EXCEPT ![array.ref] = sortByDate(@)], ref |-> array.ref]

\* [...sleeps].sort(compareByDate) of line 83, sleeps being the caller's
\* array.
sortedCopy(sleeps) == sort(spread("sleeps" :> sleeps, "sleeps"))

\* The caller's array after line 83.
sleepsAfterCall(sleeps) == sortedCopy(sleeps).heap["sleeps"]

\* const sortedSleeps of line 83.
sortedSleeps(sleeps) == sortedCopy(sleeps).heap[sortedCopy(sleeps).ref]

maxSleepStreak(sleeps) ==
    reduce(streakStep, sortedSleeps(sleeps),
           [sleepStreak |-> 0, maxSleepStreak |-> 0]).maxSleepStreak

Badge(id, isUnlocked) == [id |-> id, isUnlocked |-> isUnlocked]

\* A slip: exactly 10000 steps do not count.
StepMasterMutant(e) == e.dailySteps > 10000

StepMaster(e) == e.dailySteps >= 10000
NoSugaryDrinks(d) == d.sugaryDrinksCount = 0

\* Lines 45-96: the catalog, with sleep_streak set after the streak is known.
badgesOf(diets, exercises, sleeps) ==
    << Badge("first_step", Len(exercises) > 0),
       Badge("step_master", some(StepMaster, exercises)),
       Badge("sleep_streak", maxSleepStreak(sleeps) >= 3),
       Badge("clean_eater", Len(filter(NoSugaryDrinks, diets)) >= 3) >>

\* A slip: the progress shown is capped at the target.
ChallengeMutant(id, target, current) ==
    [id |-> id, target |-> target,
     current |-> IF current > target THEN target ELSE current,
     isCompleted |-> current >= target]

Challenge(id, target, current) ==
    [id |-> id, target |-> target, current |-> current,
     isCompleted |-> current >= target]

BalancedMeal(d) == d.vegRatio >= 30 /\ d.proteinRatio >= 20

\* Lines 100-135.
challengesOf(diets, exercises, sleeps) ==
    LET totalSteps    == reduce(addDailySteps, exercises, 0)
        totalModMins  == reduce(addModerateExerciseMinutes, exercises, 0)
        balancedMeals == Len(filter(BalancedMeal, diets))
    IN  << Challenge("weekly_steps", 50000, totalSteps),
           Challenge("active_week", 150, totalModMins),
           Challenge("balanced_diet", 5, balancedMeals) >>

calculateGamificationState(diets, exercises, sleeps) ==
    LET points == totalPoints(diets, exercises, sleeps)
    IN  [totalPoints         |-> points,
         level               |-> levelOf(points),
         progressToNextLevel |-> progressOf(points),
         badges              |-> badgesOf(diets, exercises, sleeps),
         challenges          |-> challengesOf(diets, exercises, sleeps)]

---------------------------------------------------------------------------
(* Entries *)

DietEntry(date, calorieIntake, vegRatio, proteinRatio, starchRatio, sugaryDrinksCount, friedFoodCount) ==
    [date |-> date, calorieIntake |-> calorieIntake, vegRatio |-> vegRatio,
     proteinRatio |-> proteinRatio, starchRatio |-> starchRatio,
     sugaryDrinksCount |-> sugaryDrinksCount, friedFoodCount |-> friedFoodCount]

ExerciseEntry(date, dailySteps, moderateExerciseMinutes, totalSittingMinutes) ==
    [date |-> date, dailySteps |-> dailySteps,
     moderateExerciseMinutes |-> moderateExerciseMinutes,
     totalSittingMinutes |-> totalSittingMinutes]

SleepEntry(date, bedTime, wakeTime, sleepDuration, usedPhoneBeforeBed) ==
    [date |-> date, bedTime |-> bedTime, wakeTime |-> wakeTime,
     sleepDuration |-> sleepDuration, usedPhoneBeforeBed |-> usedPhoneBeforeBed]

---------------------------------------------------------------------------
(* App component: App.tsx:191-297 *)

Tabs == {"DASHBOARD", "DIET", "EXERCISE", "SLEEP", "REPORT"}

\* new Date().toISOString().split('T')[0], as a day number.
Today == 7

\* The state a form is mounted with: App.tsx:509-515, 627-632, 664-669.
InitialDietForm ==
    [analyzing |-> FALSE, imagePreview |-> FALSE,
     formData |-> [date |-> Today, sugaryDrinksCount |-> 0, friedFoodCount |-> 0]]

InitialExerciseForm ==
    [date |-> Today, dailySteps |-> 0, moderateExerciseMinutes |-> 0,
     totalSittingMinutes |-> 0]

InitialSleepForm ==
    [date |-> Today, bedTime |-> TimeStr(23, 0), wakeTime |-> TimeStr(7, 0),
     usedPhoneBeforeBed |-> FALSE]

\* A form is rendered on its tab only (App.tsx:376-378).  When the tab
\* changes the form is unmounted and its state is gone: the next time it is
\* mounted with its initial state, and what a FileReader still reading or a
\* call of analyzeFoodImage still in flight sets later is set on no form.
UnmountForms ==
    /\ dietForm' = InitialDietForm
    /\ exerciseForm' = InitialExerciseForm
    /\ sleepForm' = InitialSleepForm
    /\ readers' = [k \in 1..Len(readers) |-> [readers[k] EXCEPT !.mounted = FALSE]]
    /\ foodRequests' = [k \in 1..Len(foodRequests) |->
                            [foodRequests[k] EXCEPT !.mounted = FALSE]]
    /\ UNCHANGED alerts

\* WIDGET_TITLES (App.tsx:171-179), the titles in English.
WIDGET_TITLES ==
    [type \in {"STEPS_CHART", "NUTRITION_PIE", "SLEEP_BAR", "ADVICE_LIST", "GAMIFICATION",
               "DAILY_SUMMARY", "AI_REPORT"} |->
        CASE type = "STEPS_CHART" -> "Steps trend"
          [] type = "NUTRITION_PIE" -> "Nutrition ratio"
          [] type = "SLEEP_BAR" -> "Sleep hours"
          [] type = "ADVICE_LIST" -> "Health advice"
          [] type = "GAMIFICATION" -> "Achievements and challenges"
          [] type = "DAILY_SUMMARY" -> "Today"
          [] type = "AI_REPORT" -> "AI weekly summary"]

\* A WidgetConfig; every widget of the program carries the title of its
\* type (App.tsx:13-18, 280) and neither minW nor minH.
Widget(id, type, x, y, w, h) ==
    [id |-> id, type |-> type, title |-> WIDGET_TITLES[type],
     x |-> x, y |-> y, w |-> w, h |-> h]

\* App.tsx:9-20; the layout is its list of widgets (id and name are fixed).
DEFAULT_LAYOUT ==
    << Widget("summary", "DAILY_SUMMARY", 0, 0, 4, 2),
       Widget("gamification", "GAMIFICATION", 4, 0, 8, 2),
       Widget("steps", "STEPS_CHART", 0, 2, 6, 3),
       Widget("nutrition", "NUTRITION_PIE", 6, 2, 6, 3),
       Widget("sleep", "SLEEP_BAR", 0, 5, 6, 3),
       Widget("advice", "ADVICE_LIST", 6, 5, 6, 3) >>

\* localStorage.getItem returns null when the item was never set.
NoItem == [exists |-> FALSE, empty |-> FALSE, wellFormed |-> FALSE, value |-> <<>>]

\* A stored document that is JSON, modelled by the value it denotes.
Document(value) ==
    [exists |-> TRUE, empty |-> FALSE, wellFormed |-> TRUE, value |-> value]

\* A stored document that is not JSON, such as one cut short after "{".
MalformedDocument ==
    [exists |-> TRUE, empty |-> FALSE, wellFormed |-> FALSE, value |-> <<>>]

\* A stored item that is the empty string: it is not JSON either.
EmptyDocument ==
    [exists |-> TRUE, empty |-> TRUE, wellFormed |-> FALSE, value |-> <<>>]

\* `saved ? ... : ...` (App.tsx:217): null and the empty string are falsy.
Truthy(saved) == saved.exists /\ ~saved.empty

\* The numbers of a layout are integers, the y of a new widget is Infinity
\* (App.tsx:283), which JSON.stringify writes as null.
Infinity == 1000000
Null == -1

\* JSON.stringify(dashboardLayout) (App.tsx:222).
JSONstringify(layout) ==
    Document([i \in 1..Len(layout) |->
        IF layout[i].y = Infinity THEN [layout[i] EXCEPT !.y = Null] ELSE layout[i]])

\* JSON.parse(saved) throws a SyntaxError on a document that is not JSON.
JSONparseThrows(saved) == ~saved.wellFormed

\* JSON.parse(saved) for a document that is JSON.
JSONparse(saved) == saved.value

\* What an earlier session, or anything else writing to localStorage, may
\* have left: nothing, the default layout, the default layout with the
\* advice widget removed, a document that is not JSON, or the empty string.
SavedLayouts ==
    {NoItem, JSONstringify(DEFAULT_LAYOUT), JSONstringify(SubSeq(DEFAULT_LAYOUT, 1, 5)),
     MalformedDocument, EmptyDocument}

\* The initializer of dashboardLayout (App.tsx:215-218), where it returns.
initialLayout(saved) == IF Truthy(saved) THEN JSONparse(saved) ELSE DEFAULT_LAYOUT

\* The initializer throws when JSON.parse is called and throws; nothing
\* catches it, and the first render of App fails.
initialLayoutThrows(saved) == Truthy(saved) /\ JSONparseThrows(saved)

\* useState initial value of gameState (App.tsx:205-211).
InitialGameState ==
    [totalPoints |-> 0, level |-> 1, progressToNextLevel |-> 0,
     badges |-> <<>>, challenges |-> <<>>]

\* The state after the first render: the mount effects (App.tsx:221-243) are
\* scheduled and have not run.
AppInit ==
    /\ activeTab = "DASHBOARD"
    /\ dietData = <<>>
    /\ exerciseData = <<>>
    /\ sleepData = <<>>
    /\ adviceList = <<>>
    /\ gameState = InitialGameState
    /\ isEditMode = FALSE
    /\ showAddMenu = FALSE
    /\ now = 0
    /\ dietForm = InitialDietForm
    /\ exerciseForm = InitialExerciseForm
    /\ sleepForm = InitialSleepForm
    /\ foodRequests = <<>>
    /\ readers = <<>>
    /\ alerts = <<>>
    /\ storedLayout \in SavedLayouts
    /\ crashed = initialLayoutThrows(storedLayout)
    /\ dashboardLayout = IF crashed THEN <<>> ELSE initialLayout(storedLayout)
    /\ layoutIsDefault = (~crashed /\ ~Truthy(storedLayout))
    /\ effects = IF crashed THEN {} ELSE {"saveLayout", "mockData", "recompute"}
    /\ aiReportSummary = ""
    /\ isGeneratingReport = FALSE
    /\ reportRequests = <<>>

\* generateMockData (App.tsx:23-59) returns one entry per list for each of
\* the last MockDays days; days are numbered 1..MockDays.  The random draws
\* are a choice among a few outcomes within the generator's ranges.
MockDays == 7

mockDiets(sugaryDays) ==
    [i \in 1..MockDays |->
        DietEntry(i, 600, 25, 25, 50, IF i <= sugaryDays THEN 1 ELSE 0, 0)]

mockExercises(draw) ==
    [i \in 1..MockDays |-> ExerciseEntry(i, draw[1], draw[2], 350)]

mockSleeps(draw) ==
    [i \in 1..MockDays |->
        SleepEntry(i, TimeStr(23, 45), TimeStr(6, 30), draw[1], draw[2])]

MockDraws ==
    { <<0, <<5000, 10>>, <<390, TRUE>>>>,
      <<4, <<5000, 10>>, <<435, FALSE>>>>,
      <<0, <<8500, 30>>, <<435, FALSE>>>> }

generateMockData ==
    { [diets     |-> mockDiets(draw[1]),
       exercises |-> mockExercises(draw[2]),
       sleeps    |-> mockSleeps(draw[3])] : draw \in MockDraws }

\* The largest number of engine invocations in one run of the harness.
MaxCalls == 3

\* The largest number of entries the three lists hold beyond the mock data.
MaxSubmits == 3

Submitted == Len(dietData) + Len(exerciseData) + Len(sleepData) - 3 * MockDays

\* Entries a form may hand to its submit handler.
SubmittedDiets == {DietEntry(7, 700, 75, 25, 25, 0, 0), DietEntry(7, 900, 25, 0, 50, 2, 1)}
SubmittedExercises == {ExerciseEntry(7, 12000, 60, 300), ExerciseEntry(7, 3000, 0, 900)}
SubmittedSleeps ==
    {SleepEntry(7, TimeStr(22, 0), TimeStr(6, 0), 480, FALSE),
     SleepEntry(7, TimeStr(1, 0), TimeStr(6, 0), 300, TRUE)}

\* A slip: the advice lists concatenated in another order.
recomputeAdviceMutant(diets, exercises, sleeps) ==
    analyzeExercise(exercises) \o analyzeDiet(diets) \o analyzeSleep(sleeps)

\* App.tsx:235-238: [...dietAdvice, ...exerciseAdvice, ...sleepAdvice]
recomputeAdvice(diets, exercises, sleeps) ==
    analyzeDiet(diets) \o analyzeExercise(exercises) \o analyzeSleep(sleeps)

\* The first flush of effects after mounting.  The effects run in the order
\* declared, each with the values of the first render: the save effect
\* (App.tsx:221-223) stores the layout, the mock data effect (226-231) sets
\* the three lists, the recompute effect (234-243) computes from the still
\* empty lists; the new lists schedule it again.
MountEffects ==
    /\ "mockData" \in effects
    /\ storedLayout' = JSONstringify(dashboardLayout)
    /\ \E mock \in generateMockData :
          /\ dietData' = mock.diets
          /\ exerciseData' = mock.exercises
          /\ sleepData' = mock.sleeps
    /\ adviceList' = recomputeAdvice(dietData, exerciseData, sleepData)
    /\ gameState' = calculateGamificationState(dietData, exerciseData, sleepData)
    /\ effects' = {"recompute"}
    /\ UNCHANGED <<activeTab, dashboardLayout, layoutIsDefault, reportVars, crashed,
                   editVars, formVars, harnessVars>>

\* The flush of effects after a later render: the save effect (App.tsx:
\* 221-223) if dashboardLayout changed, then the recompute effect (234-243)
\* if one of dietData, exerciseData, sleepData changed.
RunEffects ==
    /\ effects # {}
    /\ "mockData" \notin effects
    /\ storedLayout' = IF "saveLayout" \in effects
                       THEN JSONstringify(dashboardLayout) ELSE storedLayout
    /\ IF "recompute" \in effects
       THEN /\ adviceList' = recomputeAdvice(dietData, exerciseData, sleepData)
            /\ gameState' = calculateGamificationState(dietData, exerciseData, sleepData)
       ELSE UNCHANGED <<adviceList, gameState>>
    /\ effects' = {}
    /\ UNCHANGED <<activeTab, dietData, exerciseData, sleepData, dashboardLayout, layoutIsDefault,
                   reportVars, crashed,
                   editVars, formVars, harnessVars>>

\* The handlers below run on a click.  React runs the effects of the render
\* a click causes before it handles the next event, so a handler finds no
\* effect pending; an App whose first render failed shows nothing to click.
Interactive == effects = {} /\ ~crashed

\* setActiveTab from the bottom navigation, a form's cancel button or a
\* widget's link (App.tsx:308, 312, 376-378, 394-398).
SetActiveTab(tab) ==
    /\ Interactive
    /\ activeTab' = tab
    /\ IF tab # activeTab
       THEN UnmountForms /\ showAddMenu' = FALSE
       ELSE UNCHANGED <<formVars, showAddMenu>>
    /\ UNCHANGED <<dietData, exerciseData, sleepData, adviceList, gameState,
                   dashboardLayout, layoutIsDefault, storedLayout, effects, reportVars, crashed,
                   isEditMode, now, harnessVars>>

\* App.tsx:247-250; the diet form is rendered on the DIET tab only.
handleDietSubmit(data) ==
    /\ Interactive
    /\ activeTab = "DIET"
    /\ Submitted < MaxSubmits
    /\ dietData' = Append(dietData, data)
    /\ activeTab' = "DASHBOARD"
    /\ effects' = {"recompute"}
    /\ UnmountForms
    /\ UNCHANGED <<exerciseData, sleepData, adviceList, gameState,
                   dashboardLayout, layoutIsDefault, storedLayout, reportVars, crashed,
                   editVars, harnessVars>>

\* App.tsx:252-255
handleExerciseSubmit(data) ==
    /\ Interactive
    /\ activeTab = "EXERCISE"
    /\ Submitted < MaxSubmits
    /\ exerciseData' = Append(exerciseData, data)
    /\ activeTab' = "DASHBOARD"
    /\ effects' = {"recompute"}
    /\ UnmountForms
    /\ UNCHANGED <<dietData, sleepData, adviceList, gameState,
                   dashboardLayout, layoutIsDefault, storedLayout, reportVars, crashed,
                   editVars, harnessVars>>

\* A slip: the new entry put in front of the list.
handleSleepSubmitMutant(data) ==
    /\ Interactive
    /\ activeTab = "SLEEP"
    /\ Submitted < MaxSubmits
    /\ sleepData' = <<data>> \o sleepData
    /\ activeTab' = "DASHBOARD"
    /\ effects' = {"recompute"}
    /\ UnmountForms
    /\ UNCHANGED <<dietData, exerciseData, adviceList, gameState,
                   dashboardLayout, layoutIsDefault, storedLayout, reportVars, crashed,
                   editVars, harnessVars>>

\* App.tsx:257-260
handleSleepSubmit(data) ==
    /\ Interactive
    /\ activeTab = "SLEEP"
    /\ Submitted < MaxSubmits
    /\ sleepData' = Append(sleepData, data)
    /\ activeTab' = "DASHBOARD"
    /\ effects' = {"recompute"}
    /\ UnmountForms
    /\ UNCHANGED <<dietData, exerciseData, adviceList, gameState,
                   dashboardLayout, layoutIsDefault, storedLayout, reportVars, crashed,
                   editVars, harnessVars>>

\* A slip: the save effect declared with no dependency, to run once.
layoutChangedMutant == {}

\* The effects React schedules for a render in which dashboardLayout has
\* changed: the save effect, whose dependency it is (App.tsx:221-223).
layoutChanged == {"saveLayout"}

\* The reset button of the header (App.tsx:345-352): new mock data replace
\* the three lists and, if the user confirms, the default layout replaces
\* the layout.  React compares the new state with the old by Object.is:
\* the save effect is scheduled unless the layout is already the object
\* DEFAULT_LAYOUT.
ResetData ==
    /\ Interactive
    /\ \E mock \in generateMockData :
          /\ dietData' = mock.diets
          /\ exerciseData' = mock.exercises
          /\ sleepData' = mock.sleeps
    /\ \E confirmed \in BOOLEAN :
          /\ dashboardLayout' = IF confirmed THEN DEFAULT_LAYOUT ELSE dashboardLayout
          /\ layoutIsDefault' = (confirmed \/ layoutIsDefault)
          /\ effects' = {"recompute"}
                \cup (IF confirmed /\ ~layoutIsDefault THEN layoutChanged ELSE {})
    /\ UNCHANGED <<activeTab, adviceList, gameState, storedLayout, reportVars, crashed,
                   editVars, formVars, harnessVars>>

\* The weekly report: App.tsx:262-272 and services/geminiService.ts:73-120.

MaxRequests == 2

\* What the call of generateWeeklyReportAI meets: whether process.env holds
\* an API key, and what ai.models.generateContent does: throw (or reject),
\* or answer with a response whose text is empty or not.
ReportEnvironments ==
    {[apiKey |-> k, response |-> r] :
        k \in BOOLEAN, r \in {"throws", "", "weekly summary"}}

NoApiKeyError == "API Key not found in environment variables"
ServiceErrorMessage == "error while generating the report"
EmptyResponseMessage == "cannot generate the report, try again later"
FailedMessage == "report generation failed, check the network connection"

\* A slip: the text of the response is returned as it is.
responseTextMutant(text) == text

\* response.text || fallback (geminiService.ts:115)
responseText(text) == IF text # "" THEN text ELSE EmptyResponseMessage

\* The promise generateWeeklyReportAI returns, settled: getClient throws
\* outside the try block (line 79), so a missing key rejects the promise; a
\* failure of generateContent is caught and answered by a message (105-119).
generateWeeklyReportAI(env) ==
    IF ~env.apiKey THEN [status |-> "rejected", value |-> NoApiKeyError]
    ELSE IF env.response = "throws"
         THEN [status |-> "fulfilled", value |-> ServiceErrorMessage]
         ELSE [status |-> "fulfilled", value |-> responseText(env.response)]

\* The summary handleGenerateReport stores for a settled promise (265-268).
summaryFor(promise) ==
    IF promise.status = "fulfilled" THEN promise.value ELSE FailedMessage

\* A slip: the flag is cleared after setAiReportSummary(summary) in the try
\* block, not in a finally block.
generatingAfterMutant(promise) == promise.status # "fulfilled"

\* isGeneratingReport after the finally block (269-271).
generatingAfter(promise) == FALSE

\* A slip: the button stays once there is a summary.
GenerateButtonShownMutant ==
    /\ \/ activeTab = "REPORT"
       \/ activeTab = "DASHBOARD"
            /\ \E i \in 1..Len(dashboardLayout) : dashboardLayout[i].type = "AI_REPORT"
    /\ ~isGeneratingReport

\* The button that calls handleGenerateReport is rendered by ReportView
\* (App.tsx:720-724) and by an AI_REPORT widget (478-495) while there is no
\* summary and no report is being generated.
GenerateButtonShown ==
    /\ \/ activeTab = "REPORT"
       \/ activeTab = "DASHBOARD"
            /\ \E i \in 1..Len(dashboardLayout) : dashboardLayout[i].type = "AI_REPORT"
    /\ aiReportSummary = ""
    /\ ~isGeneratingReport

\* handleGenerateReport up to its await (App.tsx:262-265): the flag is set
\* and generateWeeklyReportAI is called once, with the lists and the advice
\* of this render.
handleGenerateReport ==
    /\ Interactive
    /\ GenerateButtonShown
    /\ Len(reportRequests) < MaxRequests
    /\ isGeneratingReport' = TRUE
    /\ \E env \in ReportEnvironments :
          reportRequests' = Append(reportRequests,
              [args |-> <<dietData, exerciseData, sleepData, adviceList>>,
               env |-> env, serviceCalls |-> 1, settled |-> FALSE])
    /\ UNCHANGED <<activeTab, dietData, exerciseData, sleepData, adviceList, gameState,
                   dashboardLayout, layoutIsDefault, storedLayout, effects, aiReportSummary,
                   crashed,
                   editVars, formVars, harnessVars>>

\* handleGenerateReport after its await (App.tsx:265-271), when the promise
\* of request k has settled.
ReportSettles(k) ==
    /\ ~reportRequests[k].settled
    /\ reportRequests' = [reportRequests EXCEPT ![k].settled = TRUE]
    /\ aiReportSummary' = summaryFor(generateWeeklyReportAI(reportRequests[k].env))
    /\ isGeneratingReport' = generatingAfter(generateWeeklyReportAI(reportRequests[k].env))
    /\ UNCHANGED <<activeTab, dietData, exerciseData, sleepData, adviceList, gameState,
                   dashboardLayout, layoutIsDefault, storedLayout, effects, crashed,
                   editVars, formVars, harnessVars>>

\* The entry forms: App.tsx:508-710 and services/geminiService.ts:23-69.

MaxUploads == 1
\* And where uploads overlap.
MaxOverlap == 2
MaxAlerts == 1

\* The largest number of entries saved through the forms.
MaxFormSubmits == 1

\* { ...prev, ...result }: the fields of both, those of result winning.
merge(prev, result) ==
    [f \in DOMAIN prev \cup DOMAIN result |->
        IF f \in DOMAIN result THEN result[f] ELSE prev[f]]

\* formData.field || 0 for a numeric field: 0 when the field is undefined.
OrZero(formData, field) == IF field \in DOMAIN formData THEN formData[field] ELSE 0

\* What analyzeFoodImage meets: an API key or none, and a call of
\* generateContent that throws, or answers with no text, with text that is
\* not JSON, or with the estimate the response schema asks for.
FoodEnvironments ==
    {[apiKey |-> FALSE, response |-> "estimate"]}
        \cup {[apiKey |-> TRUE, response |-> r] :
                  r \in {"throws", "", "not JSON", "estimate"}}

FoodEstimate ==
    [calorieIntake |-> 650, vegRatio |-> 50, proteinRatio |-> 25, starchRatio |-> 25,
     sugaryDrinksCount |-> 1, friedFoodCount |-> 1]

\* The promise analyzeFoodImage returns, settled (geminiService.ts:23-69):
\* every failure rejects it, getClient's before the try block and the
\* others by the throw of the catch block.
analyzeFoodImage(env) ==
    IF ~env.apiKey THEN [status |-> "rejected", value |-> [error |-> NoApiKeyError]]
    ELSE IF env.response = "throws"
         THEN [status |-> "rejected", value |-> [error |-> "request failed"]]
    ELSE IF env.response = ""
         THEN [status |-> "rejected", value |-> [error |-> "No response from Gemini"]]
    ELSE IF env.response = "not JSON"
         THEN [status |-> "rejected", value |-> [error |-> "SyntaxError"]]
    ELSE [status |-> "fulfilled", value |-> FoodEstimate]

AnalysisFailedAlert == "analysis failed, enter the data by hand"
IncompleteAlert == "enter the diet data or upload a photo"

\* A slip: what arrived of the answer is merged before the failure is seen.
formDataAfterMutant(prev, promise) ==
    IF promise.status = "fulfilled" THEN merge(prev, promise.value)
    ELSE merge(prev, [calorieIntake |-> 0])

\* formData after the try block of App.tsx:527-536.
formDataAfter(prev, promise) ==
    IF promise.status = "fulfilled" THEN merge(prev, promise.value) ELSE prev

\* handleFileChange with a file chosen (App.tsx:517-522, 542): a FileReader
\* is made, its onloadend is set and readAsDataURL is called; no state of
\* the form changes before the file is read.  The file input stays enabled
\* while a file is read or a request is outstanding (App.tsx:570); limit
\* bounds the uploads of a behaviour.
FileChosen(limit) ==
    /\ Interactive
    /\ activeTab = "DIET"
    /\ Len(readers) + Len(foodRequests) < limit
    /\ readers' = Append(readers, [mounted |-> TRUE])
    /\ UNCHANGED <<activeTab, dietData, exerciseData, sleepData, adviceList, gameState,
                   dashboardLayout, layoutIsDefault, storedLayout, effects, reportVars,
                   crashed, editVars, dietForm, exerciseForm, sleepForm, foodRequests,
                   alerts, harnessVars>>

handleFileChange == FileChosen(MaxUploads)

\* reader.result when loadend fires: the data URL of the file, or null
\* after a read that failed (loadend follows an error too).
ReaderResults == {"data", "null"}

\* reader.onloadend (App.tsx:523-541), a task of its own once reader k is
\* done.  With the data of the file it runs up to the await of line 529:
\* the preview and analyzing are set on the form that chose the file, if it
\* is still mounted, and analyzeFoodImage is called in any case.  With null
\* the preview is set to null and base64.split throws inside the try: the
\* alert shows, analyzing ends false and analyzeFoodImage is not called.
readerOnloadend(k) ==
    /\ readers' = [j \in 1..(Len(readers) - 1) |->
                      IF j < k THEN readers[j] ELSE readers[j + 1]]
    /\ \E result \in ReaderResults :
          IF result = "data"
          THEN /\ dietForm' =
                     IF readers[k].mounted
                     THEN [dietForm EXCEPT !.imagePreview = TRUE, !.analyzing = TRUE]
                     ELSE dietForm
               /\ \E env \in FoodEnvironments :
                     foodRequests' = Append(foodRequests,
                         [env |-> env, settled |-> FALSE, mounted |-> readers[k].mounted,
                          handled |-> FALSE, dietsBefore |-> Len(dietData)])
               /\ UNCHANGED alerts
          ELSE /\ Len(alerts) < MaxAlerts
               /\ dietForm' =
                     IF readers[k].mounted
                     THEN [dietForm EXCEPT !.imagePreview = FALSE, !.analyzing = FALSE]
                     ELSE dietForm
               /\ alerts' = Append(alerts, AnalysisFailedAlert)
               /\ UNCHANGED foodRequests
    /\ UNCHANGED <<activeTab, dietData, exerciseData, sleepData, adviceList, gameState,
                   dashboardLayout, layoutIsDefault, storedLayout, effects, reportVars,
                   crashed, editVars, exerciseForm, sleepForm, harnessVars>>

\* handleFileChange after its await (App.tsx:529-539), when the promise of
\* request k has settled.  alert() is the window's and shows in any case;
\* the state setters act on the form that made the request, if it is still
\* mounted.
FoodAnalysisSettles(k) ==
    /\ ~foodRequests[k].settled
    /\ analyzeFoodImage(foodRequests[k].env).status = "rejected" =>
          Len(alerts) < MaxAlerts
    /\ foodRequests' = [foodRequests EXCEPT ![k].settled = TRUE,
                                            ![k].handled = foodRequests[k].mounted]
    /\ alerts' = IF analyzeFoodImage(foodRequests[k].env).status = "rejected"
                 THEN Append(alerts, AnalysisFailedAlert) ELSE alerts
    /\ dietForm' =
          IF foodRequests[k].mounted
          THEN [dietForm EXCEPT
                  !.formData = formDataAfter(dietForm.formData,
                                             analyzeFoodImage(foodRequests[k].env)),
                  !.analyzing = FALSE]
          ELSE dietForm
    /\ UNCHANGED <<activeTab, dietData, exerciseData, sleepData, adviceList, gameState,
                   dashboardLayout, layoutIsDefault, storedLayout, effects, reportVars, crashed,
                   editVars, exerciseForm, sleepForm, readers, harnessVars>>

\* What the user may type into the number inputs of the diet form; the
\* onChange handlers store Number(e.target.value) (App.tsx:599-611).
DietFormEdits == {<<"calorieIntake", 700>>}

DietFormChange(field, value) ==
    /\ Interactive
    /\ activeTab = "DIET"
    /\ dietForm' = [dietForm EXCEPT !.formData = merge(@, field :> value)]
    /\ UNCHANGED <<activeTab, dietData, exerciseData, sleepData, adviceList, gameState,
                   dashboardLayout, layoutIsDefault, storedLayout, effects, reportVars, crashed,
                   editVars, exerciseForm, sleepForm, foodRequests, readers, alerts, harnessVars>>

\* The entry DietInputView.handleSubmit hands to onSave (App.tsx:548-557).
DietFormEntry(formData) ==
    DietEntry(formData.date, formData.calorieIntake,
              OrZero(formData, "vegRatio"), OrZero(formData, "proteinRatio"),
              OrZero(formData, "starchRatio"), OrZero(formData, "sugaryDrinksCount"),
              OrZero(formData, "friedFoodCount"))

\* DietInputView.handleSubmit (App.tsx:545-561), with onSave =
\* handleDietSubmit.
DietFormSubmit ==
    IF "calorieIntake" \in DOMAIN dietForm.formData
    THEN /\ Submitted < MaxFormSubmits
         /\ handleDietSubmit(DietFormEntry(dietForm.formData))
    ELSE /\ Interactive
         /\ activeTab = "DIET"
         /\ Len(alerts) < MaxAlerts
         /\ alerts' = Append(alerts, IncompleteAlert)
         /\ UNCHANGED <<activeTab, dietData, exerciseData, sleepData, adviceList,
                        gameState, dashboardLayout, layoutIsDefault, storedLayout, effects, reportVars,
                        crashed, editVars, dietForm, exerciseForm, sleepForm,
                        foodRequests, readers, harnessVars>>

ExerciseFormEdits == {<<"dailySteps", 12000>>, <<"moderateExerciseMinutes", 60>>}

\* The onChange handlers of ExerciseInputView (App.tsx:640-652).
ExerciseFormChange(field, value) ==
    /\ Interactive
    /\ activeTab = "EXERCISE"
    /\ exerciseForm' = merge(exerciseForm, field :> value)
    /\ UNCHANGED <<activeTab, dietData, exerciseData, sleepData, adviceList, gameState,
                   dashboardLayout, layoutIsDefault, storedLayout, effects, reportVars, crashed,
                   editVars, dietForm, sleepForm, foodRequests, readers, alerts, harnessVars>>

\* The save button of ExerciseInputView (App.tsx:656): onSave({id, ...data}).
ExerciseFormSubmit ==
    /\ Submitted < MaxFormSubmits
    /\ handleExerciseSubmit(
           ExerciseEntry(exerciseForm.date, exerciseForm.dailySteps,
                         exerciseForm.moderateExerciseMinutes,
                         exerciseForm.totalSittingMinutes))

\* new Date("2000-01-01T" + time).getTime(), in minutes from the start of
\* that day: NaN for the empty string a cleared time input holds.
timeOfDay(time) ==
    IF Len(time) = 5
    THEN 60 * DecimalValue(SubSeq(time, 1, 2)) + DecimalValue(SubSeq(time, 4, 5))
    ELSE NaN

\* A slip: a wake time equal to the bed time taken for the next day's.
calculateDurationMutant(data) ==
    IF timeOfDay(data.bedTime) = NaN \/ timeOfDay(data.wakeTime) = NaN THEN NaN
    ELSE IF timeOfDay(data.wakeTime) <= timeOfDay(data.bedTime)
         THEN timeOfDay(data.wakeTime) + 1440 - timeOfDay(data.bedTime)
         ELSE timeOfDay(data.wakeTime) - timeOfDay(data.bedTime)

\* SleepInputView.calculateDuration (App.tsx:671-677), in minutes.
calculateDuration(data) ==
    IF timeOfDay(data.bedTime) = NaN \/ timeOfDay(data.wakeTime) = NaN THEN NaN
    ELSE IF timeOfDay(data.wakeTime) < timeOfDay(data.bedTime)
         THEN timeOfDay(data.wakeTime) + 1440 - timeOfDay(data.bedTime)
         ELSE timeOfDay(data.wakeTime) - timeOfDay(data.bedTime)

\* What the user may set in the sleep form: a time, or no time by clearing
\* the input, and the checkbox.
SleepFormEdits ==
    {<<"bedTime", TimeStr(1, 0)>>, <<"bedTime", <<>>>>, <<"usedPhoneBeforeBed", TRUE>>}

\* The onChange handlers of SleepInputView (App.tsx:685-698).
SleepFormChange(field, value) ==
    /\ Interactive
    /\ activeTab = "SLEEP"
    /\ sleepForm' = merge(sleepForm, field :> value)
    /\ UNCHANGED <<activeTab, dietData, exerciseData, sleepData, adviceList, gameState,
                   dashboardLayout, layoutIsDefault, storedLayout, effects, reportVars, crashed,
                   editVars, dietForm, exerciseForm, foodRequests, readers, alerts, harnessVars>>

\* The save button of SleepInputView (App.tsx:703):
\* onSave({id, sleepDuration: calculateDuration(), ...data}).
SleepFormSubmit ==
    /\ Submitted < MaxFormSubmits
    /\ handleSleepSubmit(
           SleepEntry(sleepForm.date, sleepForm.bedTime, sleepForm.wakeTime,
                      calculateDuration(sleepForm), sleepForm.usedPhoneBeforeBed))

\* Customising the dashboard: App.tsx:276-297, 333-344 and the Dashboard
\* component.

\* The largest number of widgets a layout grows to by adding.
MaxWidgets == 7

\* The latest time the clock shows, in milliseconds.
MaxTime == 1

\* The widget type the add menu is asked for, of the seven it lists.
AddedTypes == {"AI_REPORT"}

\* `${type}_${Date.now()}` (App.tsx:278)
NewWidgetId(type, time) == type \o "_" \o ToString(time)

\* The button of the header, rendered on the dashboard tab (App.tsx:332-344).
ToggleEditMode ==
    /\ Interactive
    /\ activeTab = "DASHBOARD"
    /\ isEditMode' = ~isEditMode
    /\ UNCHANGED <<activeTab, dietData, exerciseData, sleepData, adviceList, gameState,
                   dashboardLayout, layoutIsDefault, storedLayout, effects, reportVars, crashed,
                   showAddMenu, now, formVars, harnessVars>>

\* The button of the edit bar toggles the add menu; the button of the empty
\* dashboard opens it.
ToggleAddMenu ==
    /\ Interactive
    /\ activeTab = "DASHBOARD"
    /\ \/ isEditMode /\ showAddMenu' = ~showAddMenu
       \/ Len(dashboardLayout) = 0 /\ ~showAddMenu /\ showAddMenu' = TRUE
    /\ UNCHANGED <<activeTab, dietData, exerciseData, sleepData, adviceList, gameState,
                   dashboardLayout, layoutIsDefault, storedLayout, effects, reportVars, crashed,
                   isEditMode, now, formVars, harnessVars>>

\* A slip: the new widget replaces the list.
widgetsAfterAddMutant(widgets, newWidget) == <<newWidget>>

\* [...prev.widgets, newWidget] (App.tsx:286-289)
widgetsAfterAdd(widgets, newWidget) == Append(widgets, newWidget)

\* An entry of the add menu (Dashboard): onAddWidget(type), which is
\* handleAddWidget (App.tsx:276-290), then setShowAddMenu(false).  The
\* clock is read once and does not run backwards.
handleAddWidget(type) ==
    /\ Interactive
    /\ activeTab = "DASHBOARD"
    /\ isEditMode
    /\ showAddMenu
    /\ Len(dashboardLayout) < MaxWidgets
    /\ \E time \in now..MaxTime :
          /\ now' = time
          /\ layoutIsDefault' = FALSE
          /\ dashboardLayout' =
                widgetsAfterAdd(dashboardLayout,
                                Widget(NewWidgetId(type, time), type, 0, Infinity, 6, 3))
    /\ showAddMenu' = FALSE
    /\ effects' = layoutChanged
    /\ UNCHANGED <<activeTab, dietData, exerciseData, sleepData, adviceList, gameState,
                   storedLayout, reportVars, crashed, isEditMode, formVars, harnessVars>>

\* prev.widgets.filter(w => w.id !== id) (App.tsx:293-296)
widgetsAfterRemove(widgets, id) ==
    IF \A i \in 1..Len(widgets) : widgets[i].id # id THEN widgets
    ELSE SelectSeq(widgets, LAMBDA w : w.id # id)

\* The remove button of a widget, rendered in edit mode: handleRemoveWidget
\* (App.tsx:292-297) for the widget at position k.
handleRemoveWidget(k) ==
    /\ Interactive
    /\ activeTab = "DASHBOARD"
    /\ isEditMode
    /\ dashboardLayout' = widgetsAfterRemove(dashboardLayout, dashboardLayout[k].id)
    /\ layoutIsDefault' = FALSE
    /\ effects' = layoutChanged
    /\ UNCHANGED <<activeTab, dietData, exerciseData, sleepData, adviceList, gameState,
                   storedLayout, reportVars, crashed, editVars, formVars, harnessVars>>

\* The widgets a removal is asked for: the last of the default layout and
\* whatever was added.
Removable(widget) ==
    \/ widget.id = "advice"
    \/ \A i \in 1..Len(DEFAULT_LAYOUT) : DEFAULT_LAYOUT[i].id # widget.id

\* The item of gridLayouts.lg for a widget (Dashboard, lines 78-88): x, y,
\* w and h as they are, y Infinity or null included; minW and minH are
\* w.minW || 2 and w.minH || 2 of a widget that has neither.
GridItem(widget) ==
    [i |-> widget.id, x |-> widget.x, y |-> widget.y, w |-> widget.w, h |-> widget.h,
     minW |-> 2, minH |-> 2]

\* gridLayouts.lg (Dashboard, lines 78-88), the items handed to the grid.
gridLayouts(layout) == [k \in 1..Len(layout) |-> GridItem(layout[k])]

\* The grid is a library's and reports finite rows.  Where it puts an item
\* whose y is not a finite number is its choice: here the top row, or the
\* row below as many items of the default height.
GridRow(k) == 3 * (k - 1)

Placed(layout, atTop) ==
    [k \in 1..Len(layout) |->
        [gridLayouts(layout)[k] EXCEPT
            !.y = IF @ \in {Infinity, Null}
                  THEN (IF atTop THEN 0 ELSE GridRow(k)) ELSE @]]

\* What the grid may report of a layout: its items placed; or, after the
\* user resized the first item, that item resized and the others placed,
\* short of the last item.
GridReports(layout) ==
    UNION {{Placed(layout, atTop)}
              \cup (IF Len(layout) = 0 THEN {}
                    ELSE {SubSeq([Placed(layout, atTop) EXCEPT ![1].w = 5],
                                 1, Len(layout) - 1)}) : atTop \in BOOLEAN}

\* currentLayout.find(item => item.i === id) finds an item.
Found(currentLayout, id) == \E k \in 1..Len(currentLayout) : currentLayout[k].i = id

\* currentLayout.find(item => item.i === id): the first such item.
find(currentLayout, id) ==
    currentLayout[CHOOSE k \in 1..Len(currentLayout) :
        /\ currentLayout[k].i = id
        /\ \A j \in 1..(k - 1) : currentLayout[j].i # id]

\* A slip: the whole grid item spread over the widget.
updatedWidgetMutant(widget, currentLayout) ==
    IF Found(currentLayout, widget.id)
    THEN [f \in DOMAIN widget \cup DOMAIN find(currentLayout, widget.id) |->
            IF f \in DOMAIN find(currentLayout, widget.id)
            THEN find(currentLayout, widget.id)[f] ELSE widget[f]]
    ELSE widget

\* The callback of the map of Dashboard.handleLayoutChange (lines 58-70).
updatedWidget(widget, currentLayout) ==
    IF Found(currentLayout, widget.id)
    THEN [widget EXCEPT !.x = find(currentLayout, widget.id).x,
                        !.y = find(currentLayout, widget.id).y,
                        !.w = find(currentLayout, widget.id).w,
                        !.h = find(currentLayout, widget.id).h]
    ELSE widget

\* layout.widgets.map(...) of Dashboard.handleLayoutChange (lines 58-70).
updatedWidgets(widgets, currentLayout) ==
    [k \in 1..Len(widgets) |-> updatedWidget(widgets[k], currentLayout)]

\* Dashboard.handleLayoutChange (lines 57-76) with onLayoutChange =
\* setDashboardLayout (App.tsx:368); the grid calls it in and out of edit
\* mode.
handleLayoutChange(currentLayout) ==
    /\ Interactive
    /\ activeTab = "DASHBOARD"
    /\ dashboardLayout' = updatedWidgets(dashboardLayout, currentLayout)
    /\ layoutIsDefault' = FALSE
    /\ effects' = layoutChanged
    /\ UNCHANGED <<activeTab, dietData, exerciseData, sleepData, adviceList, gameState,
                   storedLayout, reportVars, crashed, editVars, formVars, harnessVars>>

Init == AppInit /\ fn = "none" /\ ret = <<>> /\ calls = <<>>

Next ==
    \/ MountEffects
    \/ RunEffects
    \/ \E tab \in Tabs : SetActiveTab(tab)
    \/ \E data \in SubmittedDiets : handleDietSubmit(data)
    \/ \E data \in SubmittedExercises : handleExerciseSubmit(data)
    \/ \E data \in SubmittedSleeps : handleSleepSubmit(data)
    \/ ResetData

Spec == Init /\ [][Next]_vars

\* The App with its report: the lists change by the mount effect and the
\* reset button only.
NextReport ==
    \/ MountEffects
    \/ RunEffects
    \/ \E tab \in Tabs : SetActiveTab(tab)
    \/ ResetData
    \/ handleGenerateReport
    \/ \E k \in 1..Len(reportRequests) : ReportSettles(k)

SpecReport == Init /\ [][NextReport]_vars

\* Nothing was stored by an earlier session.
InitForms == Init /\ storedLayout = NoItem

\* Nights the sleep form may save for days of the mock week: short ones.
ShortNights ==
    {SleepEntry(d, TimeStr(1, 0), TimeStr(6, 0), 300, TRUE) : d \in {2, 4, 6}}

\* The App with submissions of short nights.
NextNights ==
    \/ MountEffects
    \/ RunEffects
    \/ \E tab \in {"DASHBOARD", "SLEEP"} : SetActiveTab(tab)
    \/ \E data \in ShortNights : handleSleepSubmit(data)

SpecNights == InitForms /\ [][NextNights]_vars

\* The App with the customising of its dashboard.
NextLayout ==
    \/ MountEffects
    \/ RunEffects
    \/ \E tab \in {"DASHBOARD", "REPORT"} : SetActiveTab(tab)
    \/ ResetData
    \/ ToggleEditMode
    \/ ToggleAddMenu
    \/ \E type \in AddedTypes : handleAddWidget(type)
    \/ \E k \in 1..Len(dashboardLayout) :
          Removable(dashboardLayout[k]) /\ handleRemoveWidget(k)
    \/ \E currentLayout \in GridReports(dashboardLayout) : handleLayoutChange(currentLayout)

\* An earlier session stored nothing, or the default layout short of its
\* advice widget.
InitLayout ==
    Init /\ storedLayout \in {NoItem, EmptyDocument,
                              JSONstringify(SubSeq(DEFAULT_LAYOUT, 1, 5))}

SpecLayout == InitLayout /\ [][NextLayout]_vars

\* The App with its diet form.
NextDietForm ==
    \/ MountEffects
    \/ RunEffects
    \/ \E tab \in Tabs : SetActiveTab(tab)
    \/ handleFileChange
    \/ \E k \in 1..Len(readers) : readerOnloadend(k)
    \/ \E k \in 1..Len(foodRequests) : FoodAnalysisSettles(k)
    \/ \E e \in DietFormEdits : DietFormChange(e[1], e[2])
    \/ DietFormSubmit

\* The App with uploads of food photos that overlap.
NextUploads ==
    \/ MountEffects
    \/ RunEffects
    \/ \E tab \in {"DASHBOARD", "DIET"} : SetActiveTab(tab)
    \/ FileChosen(MaxOverlap)
    \/ \E k \in 1..Len(readers) : readerOnloadend(k)
    \/ \E k \in 1..Len(foodRequests) : FoodAnalysisSettles(k)

SpecUploads == InitForms /\ [][NextUploads]_vars

\* The App with its three forms: entries reach the lists through the forms.
NextForms ==
    \/ MountEffects
    \/ RunEffects
    \/ \E tab \in Tabs : SetActiveTab(tab)
    \/ handleFileChange
    \/ \E k \in 1..Len(readers) : readerOnloadend(k)
    \/ \E k \in 1..Len(foodRequests) : FoodAnalysisSettles(k)
    \/ \E e \in DietFormEdits : DietFormChange(e[1], e[2])
    \/ DietFormSubmit
    \/ \E e \in ExerciseFormEdits : ExerciseFormChange(e[1], e[2])
    \/ ExerciseFormSubmit
    \/ \E e \in SleepFormEdits : SleepFormChange(e[1], e[2])
    \/ SleepFormSubmit

SpecDietForm == InitForms /\ [][NextDietForm]_vars

SpecForms == InitForms /\ [][NextForms]_vars

---------------------------------------------------------------------------
(* The engines as functions: an argument is drawn, then one engine is       *)
(* invoked on it and its return value recorded in ret.                      *)

HarnessBase ==
    /\ activeTab = "DASHBOARD"
    /\ adviceList = <<>>
    /\ gameState = InitialGameState
    /\ storedLayout = NoItem
    /\ effects = {}
    /\ crashed = FALSE
    /\ isEditMode = FALSE
    /\ showAddMenu = FALSE
    /\ now = 0
    /\ dietForm = InitialDietForm
    /\ exerciseForm = InitialExerciseForm
    /\ foodRequests = <<>>
    /\ readers = <<>>
    /\ alerts = <<>>
    /\ aiReportSummary = ""
    /\ isGeneratingReport = FALSE
    /\ reportRequests = <<>>
    /\ fn = "none"
    /\ ret = <<>>
    /\ calls = <<>>

HarnessInit ==
    /\ HarnessBase
    /\ dashboardLayout = DEFAULT_LAYOUT
    /\ layoutIsDefault = TRUE
    /\ sleepForm = InitialSleepForm

\* The record of an invocation: the engine, the arrays it was given and the
\* value it returned.
Call(engine, args, result) == [fn |-> engine, args |-> args, ret |-> result]

Arguments == <<dietData, exerciseData, sleepData>>

CallAnalyzeDiet ==
    /\ fn = "none"
    /\ fn' = "analyzeDiet"
    /\ ret' = analyzeDiet(dietData)
    /\ calls' = Append(calls, Call("analyzeDiet", Arguments, analyzeDiet(dietData)))
    /\ UNCHANGED <<activeTab, dietData, exerciseData, sleepData, adviceList,
                   gameState, viewVars>>

CallAnalyzeExercise ==
    /\ fn = "none"
    /\ fn' = "analyzeExercise"
    /\ ret' = analyzeExercise(exerciseData)
    /\ calls' = Append(calls, Call("analyzeExercise", Arguments, analyzeExercise(exerciseData)))
    /\ UNCHANGED <<activeTab, dietData, exerciseData, sleepData, adviceList,
                   gameState, viewVars>>

CallAnalyzeSleep ==
    /\ fn = "none"
    /\ fn' = "analyzeSleep"
    /\ ret' = analyzeSleep(sleepData)
    /\ calls' = Append(calls, Call("analyzeSleep", Arguments, analyzeSleep(sleepData)))
    /\ UNCHANGED <<activeTab, dietData, exerciseData, sleepData, adviceList,
                   gameState, viewVars>>

CallCalculateGamificationState ==
    /\ fn = "none"
    /\ fn' = "calculateGamificationState"
    /\ ret' = calculateGamificationState(dietData, exerciseData, sleepData)
    /\ calls' = Append(calls, Call("calculateGamificationState", Arguments,
                          calculateGamificationState(dietData, exerciseData, sleepData)))
    /\ sleepData' = sleepsAfterCall(sleepData)
    /\ UNCHANGED <<activeTab, dietData, exerciseData, adviceList,
                   gameState, viewVars>>

\* The caller has used the value returned and may invoke an engine again.
Return ==
    /\ fn # "none"
    /\ Len(calls) < MaxCalls
    /\ fn' = "none"
    /\ ret' = <<>>
    /\ UNCHANGED <<activeTab, dietData, exerciseData, sleepData, adviceList,
                   gameState, viewVars, calls>>

\* Bounds on the lengths of the drawn sequences.
MaxDietLen == 3
MaxExerciseLen == 3
MaxSleepLen == 4
MaxMixLen == 2
MaxGameLen == 2
MaxStreakLen == 4
MaxCatalogLen == 5

\* Diet arguments: short sequences over a grid around the thresholds; weeks
\* that differ in the sugary drinks only; and a hundred entries of which
\* 57 or 58 have one sugary drink (averages of exactly 0.57 and 0.58).
DietGrid ==
    {DietEntry(1, 500, v, p, 25, s, 0) : v \in {25, 50, 75}, p \in {0, 25, 50}, s \in {0, 1}}

SugaryWeeks == [1..MockDays -> {DietEntry(1, 500, 50, 25, 25, s, 0) : s \in {0, 1, 2}}]

HundredDiets(k) ==
    [i \in 1..100 |-> DietEntry(1, 500, 50, 25, 25, IF i <= k THEN 1 ELSE 0, 0)]

DietInputs ==
    SeqsUpTo(DietGrid, MaxDietLen) \cup SugaryWeeks \cup {HundredDiets(57), HundredDiets(58)}

InitDiet ==
    /\ HarnessInit
    /\ dietData \in DietInputs
    /\ exerciseData = <<>>
    /\ sleepData = <<>>

SpecDiet == InitDiet /\ [][CallAnalyzeDiet]_vars

\* Exercise arguments: short sequences over a grid around the thresholds, and
\* weeks of exactly 8000 steps a day that differ in the exercise minutes.
ExerciseGrid ==
    {ExerciseEntry(1, st, mm, sit) :
        st \in {7000, 8000, 9000}, mm \in {60, 90}, sit \in {470, 480, 490}}

StepWeeks == [1..MockDays -> {ExerciseEntry(1, 8000, mm, 480) : mm \in {20, 30}}]

ExerciseInputs == SeqsUpTo(ExerciseGrid, MaxExerciseLen) \cup StepWeeks

InitExercise ==
    /\ HarnessInit
    /\ dietData = <<>>
    /\ exerciseData \in ExerciseInputs
    /\ sleepData = <<>>

SpecExercise == InitExercise /\ [][CallAnalyzeExercise]_vars

\* Sleep arguments: sequences that differ in the bed time only, sequences
\* that differ in duration and phone use only, and sequences mixing the three.
BedTimes ==
    {TimeStr(22, 59), TimeStr(23, 0), TimeStr(23, 30), TimeStr(23, 31),
     TimeStr(0, 0), TimeStr(4, 59), TimeStr(5, 0), TimeStr(12, 45)}

BedTimeGrid == {SleepEntry(1, b, TimeStr(7, 0), 480, FALSE) : b \in BedTimes}

DurationGrid ==
    {SleepEntry(1, TimeStr(22, 0), TimeStr(7, 0), dur, ph) :
        dur \in {420, 450, 480}, ph \in BOOLEAN}

SleepMixGrid ==
    {SleepEntry(1, b, TimeStr(7, 0), dur, ph) :
        b \in {TimeStr(22, 0), TimeStr(23, 31)}, dur \in {420, 480}, ph \in BOOLEAN}

SleepInputs ==
    SeqsUpTo(BedTimeGrid, MaxSleepLen) \cup SeqsUpTo(DurationGrid, MaxSleepLen + 1)
        \cup SeqsUpTo(SleepMixGrid, MaxSleepLen)

InitSleep ==
    /\ HarnessInit
    /\ dietData = <<>>
    /\ exerciseData = <<>>
    /\ sleepData \in SleepInputs

SpecSleep == InitSleep /\ [][CallAnalyzeSleep]_vars

\* Gamification arguments.  Three lists at once over a few entries that earn
\* from nothing to everything:
MixDiets ==
    {DietEntry(1, 500, 25, 15, 50, 1, 1), DietEntry(1, 500, 30, 20, 50, 1, 1),
     DietEntry(1, 500, 50, 25, 25, 0, 0)}

MixExercises ==
    {ExerciseEntry(1, 7999, 29, 400), ExerciseEntry(1, 8000, 29, 400),
     ExerciseEntry(1, 12000, 30, 400)}

MixSleeps ==
    {SleepEntry(1, TimeStr(23, 0), TimeStr(5, 0), 360, TRUE),
     SleepEntry(1, TimeStr(23, 0), TimeStr(7, 0), 480, FALSE)}

MixInputs ==
    SeqsUpTo(MixDiets, MaxMixLen) \X SeqsUpTo(MixExercises, MaxMixLen)
        \X SeqsUpTo(MixSleeps, MaxMixLen)

\* one list at a time over a grid around every threshold of the points:
GameDietGrid ==
    {DietEntry(1, 500, v, p, 50, s, f) :
        v \in {29, 30}, p \in {19, 20}, s \in {0, 1}, f \in {0, 1}}

GameExerciseGrid ==
    {ExerciseEntry(1, st, mm, 400) :
        st \in {7999, 8000, 9999, 10000, 11999, 12000}, mm \in {29, 30}}

GameSleepGrid ==
    {SleepEntry(1, TimeStr(23, 0), TimeStr(7, 0), dur, ph) :
        dur \in {419, 420, 540, 541}, ph \in BOOLEAN}

\* and sleep lists in any order of dates, with equal dates, for the streak:
StreakGrid ==
    {SleepEntry(d, TimeStr(23, 0), TimeStr(7, 0), dur, FALSE) :
        d \in 1..3, dur \in {390, 420}}

StreakWeeks ==
    {[i \in 1..MockDays |-> SleepEntry(i, TimeStr(23, 0), TimeStr(7, 0), f[i], FALSE)] :
        f \in [1..MockDays -> {360, 480}]}

\* diet lists long enough for the clean_eater badge and the balanced_diet
\* challenge, and exercise lists whose sums pass the challenge targets:
CatalogDietGrid ==
    {DietEntry(1, 500, 30, 20, 50, 0, 0), DietEntry(1, 500, 30, 19, 50, 0, 0),
     DietEntry(1, 500, 50, 25, 25, 1, 0)}

CatalogExerciseGrid ==
    {ExerciseEntry(1, st, mm, 400) : st \in {24999, 25000, 30000}, mm \in {74, 75, 90}}

GameInputs ==
    MixInputs
        \cup {<<d, <<>>, <<>>>> : d \in SeqsUpTo(CatalogDietGrid, MaxCatalogLen)}
        \cup {<<<<>>, e, <<>>>> : e \in SeqsUpTo(CatalogExerciseGrid, MaxGameLen)}
        \cup {<<d, <<>>, <<>>>> : d \in SeqsUpTo(GameDietGrid, MaxGameLen)}
        \cup {<<<<>>, e, <<>>>> : e \in SeqsUpTo(GameExerciseGrid, MaxGameLen)}
        \cup {<<<<>>, <<>>, s>> : s \in SeqsUpTo(GameSleepGrid, MaxGameLen)}
        \cup {<<<<>>, <<>>, s>> : s \in SeqsUpTo(StreakGrid, MaxStreakLen) \cup StreakWeeks}

InitGame ==
    /\ HarnessInit
    /\ \E in \in GameInputs :
          /\ dietData = in[1]
          /\ exerciseData = in[2]
          /\ sleepData = in[3]

NextEngine ==
    \/ CallAnalyzeDiet
    \/ CallAnalyzeExercise
    \/ CallAnalyzeSleep
    \/ CallCalculateGamificationState

SpecGame == InitGame /\ [][NextEngine]_vars

\* calculateDuration on the times a sleep form may hold: around midnight,
\* morning, noon, with equal and with crossing bed and wake times.
ClockGrid == {TimeStr(h, m) : h \in {0, 7, 12, 23}, m \in {0, 30, 59}}

InitDuration ==
    /\ HarnessBase
    /\ dashboardLayout = DEFAULT_LAYOUT
    /\ layoutIsDefault = TRUE
    /\ dietData = <<>>
    /\ exerciseData = <<>>
    /\ sleepData = <<>>
    /\ \E b, w \in ClockGrid :
          sleepForm = [InitialSleepForm EXCEPT !.bedTime = b, !.wakeTime = w]

\* The save button of the sleep form evaluates calculateDuration() on the
\* data of the form (App.tsx:703).
CallCalculateDuration ==
    /\ fn = "none"
    /\ fn' = "calculateDuration"
    /\ ret' = calculateDuration(sleepForm)
    /\ UNCHANGED <<activeTab, dietData, exerciseData, sleepData, adviceList,
                   gameState, viewVars, calls>>

\* Dashboard.handleLayoutChange on layouts and grid reports taken apart from
\* the App.

\* The largest number of items of a grid report.
MaxGridItems == 2

\* Layouts the dashboard may hold: none, the default one, its first two
\* widgets, the default one with an added widget the grid has not placed,
\* and one with two added widgets of one id.
GridLayouts ==
    {<<>>, DEFAULT_LAYOUT, SubSeq(DEFAULT_LAYOUT, 1, 2),
     Append(DEFAULT_LAYOUT, Widget(NewWidgetId("AI_REPORT", 0), "AI_REPORT", 0, Infinity, 6, 3)),
     <<Widget("summary", "DAILY_SUMMARY", 0, 0, 4, 2),
       Widget(NewWidgetId("AI_REPORT", 0), "AI_REPORT", 0, 3, 6, 3),
       Widget(NewWidgetId("AI_REPORT", 0), "AI_REPORT", 0, 6, 6, 3)>>}

\* Items a grid report may hold: of the first widget, of an added one and
\* of a widget the layout does not have, moved and resized.
ReportedItems ==
    {[i |-> id, x |-> x, y |-> y, w |-> w, h |-> 2, minW |-> 2, minH |-> 2] :
        id \in {"summary", NewWidgetId("AI_REPORT", 0), "removed"},
        x \in {0, 3}, y \in {0, 9}, w \in {4, 5}}

InitGrid ==
    /\ HarnessBase
    /\ sleepForm = InitialSleepForm
    /\ dietData = <<>>
    /\ exerciseData = <<>>
    /\ sleepData = <<>>
    /\ dashboardLayout \in GridLayouts
    /\ layoutIsDefault = FALSE

\* The grid calls onLayoutChange (Dashboard, line 138) with its report; ret
\* is the widgets handed to the onLayoutChange of the App and calls holds
\* the report.
CallHandleLayoutChange ==
    /\ fn = "none"
    /\ fn' = "handleLayoutChange"
    /\ \E currentLayout \in SeqsUpTo(ReportedItems, MaxGridItems) :
          /\ calls' = <<currentLayout>>
          /\ ret' = updatedWidgets(dashboardLayout, currentLayout)
    /\ UNCHANGED <<activeTab, dietData, exerciseData, sleepData, adviceList, gameState,
                   viewVars>>

SpecGrid == InitGrid /\ [][CallHandleLayoutChange]_vars

SpecDuration == InitDuration /\ [][CallCalculateDuration]_vars

\* Repeated invocations: an engine is invoked, the caller takes the result,
\* and any engine is invoked again on the same arrays.
MaxPureLen == 2

PureInputs ==
    {<<d, e, s>> : d \in {<<DietEntry(1, 500, 50, 25, 25, 0, 0)>>},
                   e \in {<<ExerciseEntry(1, 12000, 30, 400)>>},
                   s \in SeqsUpTo(StreakGrid, MaxPureLen)}

InitPure ==
    /\ HarnessInit
    /\ \E in \in PureInputs :
          /\ dietData = in[1]
          /\ exerciseData = in[2]
          /\ sleepData = in[3]

NextPure == NextEngine \/ Return

SpecPure == InitPure /\ [][NextPure]_vars

---------------------------------------------------------------------------
(* Properties.  The definitions below state the behaviour expected of the   *)
(* engines in their own terms: sums, counts and positions of the entries.   *)

\* The sum of F over the entries of s.
RECURSIVE Total(_, _)
Total(F(_), s) ==
    IF s = <<>> THEN 0
    ELSE IF Len(s) = 1 THEN F(s[1])
    ELSE Total(F, SubSeq(s, 1, Len(s) \div 2))
           + Total(F, SubSeq(s, (Len(s) \div 2) + 1, Len(s)))

\* The number of entries of s that satisfy P.
CountIf(P(_), s) == Cardinality({i \in 1..Len(s) : P(s[i])})

\* Whether an advice sequence holds an item of the title.
HasTitle(advice, title) == \E i \in 1..Len(advice) : advice[i].title = title

When(cond, item) == IF cond THEN <<item>> ELSE <<>>

VegOf(d) == d.vegRatio
ProteinOf(d) == d.proteinRatio
SugaryOf(d) == d.sugaryDrinksCount
HadSugaryDrink(d) == d.sugaryDrinksCount >= 1

EmptyGamificationState ==
    [totalPoints |-> 0, level |-> 1, progressToNextLevel |-> 0,
     badges |-> << [id |-> "first_step", isUnlocked |-> FALSE],
                   [id |-> "step_master", isUnlocked |-> FALSE],
                   [id |-> "sleep_streak", isUnlocked |-> FALSE],
                   [id |-> "clean_eater", isUnlocked |-> FALSE] >>,
     challenges |-> << [id |-> "weekly_steps", target |-> 50000, current |-> 0,
                        isCompleted |-> FALSE],
                       [id |-> "active_week", target |-> 150, current |-> 0,
                        isCompleted |-> FALSE],
                       [id |-> "balanced_diet", target |-> 5, current |-> 0,
                        isCompleted |-> FALSE] >>]

\* C1: on empty input each analyzer returns the empty advice sequence, and
\* calculateGamificationState([], [], []) returns 0 points, level 1, progress
\* 0, the four badges all locked and the three challenges at 0, not completed.
C1_EmptyInput ==
    /\ fn = "analyzeDiet" /\ dietData = <<>> => ret = <<>>
    /\ fn = "analyzeExercise" /\ exerciseData = <<>> => ret = <<>>
    /\ fn = "analyzeSleep" /\ sleepData = <<>> => ret = <<>>
    /\ fn = "calculateGamificationState" /\ dietData = <<>>
           /\ exerciseData = <<>> /\ sleepData = <<>>
         => ret = EmptyGamificationState

C1_Witness ==
    /\ fn = "calculateGamificationState"
    /\ dietData = <<>> /\ exerciseData = <<>> /\ sleepData = <<>>
    /\ ret.level = 1 /\ Len(ret.badges) = 4 /\ Len(ret.challenges) = 3

\* C2: for a non-empty diet sequence analyzeDiet returns exactly the High
\* "unbalanced nutrition" item iff average vegRatio < 0.5 or average
\* proteinRatio < 0.25, followed by the Medium "excess sugary drinks" item iff
\* average sugaryDrinksCount > 0.57, and nothing else.
C2_DietRules ==
    fn = "analyzeDiet" /\ dietData # <<>> =>
        LET n == Len(dietData)
        IN  ret = When(Total(VegOf, dietData) < 50 * n \/ Total(ProteinOf, dietData) < 25 * n,
                       [category |-> "Diet", title |-> "unbalanced nutrition",
                        priority |-> "High"])
               \o When(100 * Total(SugaryOf, dietData) > 57 * n,
                       [category |-> "Diet", title |-> "excess sugary drinks",
                        priority |-> "Medium"])

\* Vegetables on average at the threshold, protein below it: the first rule
\* fires through its second disjunct, and the second rule fires too.
C2_Witness ==
    /\ fn = "analyzeDiet"
    /\ Len(dietData) = 3
    /\ Total(VegOf, dietData) = 50 * 3
    /\ Total(ProteinOf, dietData) < 25 * 3
    /\ Len(ret) = 2

\* C3: the sugary-drink rule compares strictly with 0.57: an average of
\* exactly 0.57 gives no "excess sugary drinks" advice, an average of 0.58
\* gives it, and so does every 7-entry sequence in which at least 4 entries
\* have a sugary drink.
C3_SugaryThreshold ==
    fn = "analyzeDiet" =>
        /\ dietData # <<>> /\ 100 * Total(SugaryOf, dietData) = 57 * Len(dietData)
             => ~HasTitle(ret, "excess sugary drinks")
        /\ dietData # <<>> /\ 100 * Total(SugaryOf, dietData) = 58 * Len(dietData)
             => HasTitle(ret, "excess sugary drinks")
        /\ Len(dietData) = 7 /\ CountIf(HadSugaryDrink, dietData) >= 4
             => HasTitle(ret, "excess sugary drinks")

C3_Witness ==
    /\ fn = "analyzeDiet"
    /\ Len(dietData) = 100
    /\ 100 * Total(SugaryOf, dietData) = 57 * Len(dietData)
    /\ ret = <<>>

StepsOf(e) == e.dailySteps
ModerateMinutesOf(e) == e.moderateExerciseMinutes
SittingOf(e) == e.totalSittingMinutes

\* C4: for a non-empty exercise sequence analyzeExercise evaluates its three
\* rules independently and emits, in this order, Medium "insufficient
\* activity" iff average dailySteps < 8000, High "insufficient moderate
\* exercise" iff the sum of moderateExerciseMinutes < 180, Low "excessive
\* sitting" iff average totalSittingMinutes > 480.  Seven entries of exactly
\* 8000 steps give no "insufficient activity" advice, and the moderate
\* exercise rule is still decided by the minutes alone.
C4_ExerciseRules ==
    fn = "analyzeExercise" /\ exerciseData # <<>> =>
        LET n == Len(exerciseData)
        IN  /\ ret = When(Total(StepsOf, exerciseData) < 8000 * n,
                          [category |-> "Exercise", title |-> "insufficient activity",
                           priority |-> "Medium"])
                  \o When(Total(ModerateMinutesOf, exerciseData) < 180,
                          [category |-> "Exercise",
                           title |-> "insufficient moderate exercise",
                           priority |-> "High"])
                  \o When(Total(SittingOf, exerciseData) > 480 * n,
                          [category |-> "Exercise", title |-> "excessive sitting",
                           priority |-> "Low"])
            /\ n = 7 /\ (\A i \in 1..n : exerciseData[i].dailySteps = 8000)
                 => /\ ~HasTitle(ret, "insufficient activity")
                    /\ HasTitle(ret, "insufficient moderate exercise")
                         <=> Total(ModerateMinutesOf, exerciseData) < 180

\* A week of exactly 8000 steps a day with too few exercise minutes: only the
\* moderate exercise rule fires.
C4_Witness ==
    /\ fn = "analyzeExercise"
    /\ Len(exerciseData) = 7
    /\ \A i \in 1..7 : exerciseData[i].dailySteps = 8000
    /\ ret = <<[category |-> "Exercise", title |-> "insufficient moderate exercise",
                priority |-> "High"]>>

\* Whether an entry's bed time reads HH:MM with hour h, with minute m.
HourIs(d, h) ==
    Len(d.bedTime) = 5 /\ d.bedTime[1] = Digits[(h \div 10) + 1]
                       /\ d.bedTime[2] = Digits[(h % 10) + 1]

MinuteIs(d, m) ==
    Len(d.bedTime) = 5 /\ d.bedTime[4] = Digits[(m \div 10) + 1]
                       /\ d.bedTime[5] = Digits[(m % 10) + 1]

\* The hour is in 0..4, or the hour is 23 and the minute is above 30.
LateBedTime(d) ==
    \/ \E h \in 0..4 : HourIs(d, h)
    \/ HourIs(d, 23) /\ \E m \in 31..59 : MinuteIs(d, m)

\* C5: a sleep entry counts as a late night iff its bedTime hour is in 0..4
\* or its bedTime is 23:MM with MM > 30 (23:30, 22:59 and 05:00 do not count,
\* 23:31 and 00:00 do), and the High "frequent late nights" advice is emitted
\* iff more than 2 entries of the sequence are late nights.
C5_LateNights ==
    fn = "analyzeSleep" /\ sleepData # <<>> =>
        /\ HasTitle(ret, "frequent late nights") <=> CountIf(LateBedTime, sleepData) > 2
        /\ HasTitle(ret, "frequent late nights") =>
              ret[1] = [category |-> "Sleep", title |-> "frequent late nights",
                        priority |-> "High"]

\* Three nights at 23:31 and one at 23:30: exactly three late nights.
C5_Witness ==
    /\ fn = "analyzeSleep"
    /\ Len(sleepData) = 4
    /\ CountIf(LateBedTime, sleepData) = 3
    /\ \E i \in 1..4 : sleepData[i].bedTime = TimeStr(23, 30)
    /\ \A i \in 1..4 : sleepData[i].bedTime \in {TimeStr(23, 30), TimeStr(23, 31)}
    /\ HasTitle(ret, "frequent late nights")

DurationOf(d) == d.sleepDuration
PhoneBeforeBed(d) == d.usedPhoneBeforeBed

\* C6: for a non-empty sleep sequence analyzeSleep returns exactly, in this
\* order, High "frequent late nights" if more than 2 entries are late nights,
\* High "insufficient sleep duration" iff average sleepDuration < 7.5 hours
\* (exactly 7.5 does not trigger), Medium "pre-bed phone use" iff more than
\* 3 entries have usedPhoneBeforeBed.
C6_SleepRules ==
    fn = "analyzeSleep" /\ sleepData # <<>> =>
        LET n == Len(sleepData)
        IN  ret = When(CountIf(LateBedTime, sleepData) > 2,
                       [category |-> "Sleep", title |-> "frequent late nights",
                        priority |-> "High"])
               \o When(Total(DurationOf, sleepData) < 450 * n,
                       [category |-> "Sleep", title |-> "insufficient sleep duration",
                        priority |-> "High"])
               \o When(CountIf(PhoneBeforeBed, sleepData) > 3,
                       [category |-> "Sleep", title |-> "pre-bed phone use",
                        priority |-> "Medium"])

\* An average of exactly 7.5 hours from unequal nights, with four nights of
\* phone use: only the phone rule fires.
C6_Witness ==
    /\ fn = "analyzeSleep"
    /\ Total(DurationOf, sleepData) = 450 * Len(sleepData)
    /\ \E i \in 1..Len(sleepData) : sleepData[i].sleepDuration # 450
    /\ CountIf(PhoneBeforeBed, sleepData) = 4
    /\ ret = <<[category |-> "Sleep", title |-> "pre-bed phone use",
                priority |-> "Medium"]>>

CategoryRank(category) ==
    CASE category = "Diet" -> 1 [] category = "Exercise" -> 2 [] category = "Sleep" -> 3

\* C7: in a mounted App, once the recompute effect has run for the latest
\* change of the lists, adviceList is analyzeDiet(dietData) followed by
\* analyzeExercise(exerciseData) followed by analyzeSleep(sleepData), diet
\* items first, then exercise, then sleep, and gameState is
\* calculateGamificationState of the current lists.
C7_DerivedStateCurrent ==
    Interactive =>
        /\ adviceList = analyzeDiet(dietData) \o analyzeExercise(exerciseData)
                            \o analyzeSleep(sleepData)
        /\ \A i, j \in 1..Len(adviceList) :
              i < j => CategoryRank(adviceList[i].category)
                          <= CategoryRank(adviceList[j].category)
        /\ gameState = calculateGamificationState(dietData, exerciseData, sleepData)

\* Every list has grown by a submission, the effect has run, and the advice
\* holds items of the three categories.
C7_Witness ==
    /\ effects = {}
    /\ Len(dietData) > MockDays /\ Len(exerciseData) > MockDays
    /\ Len(sleepData) > MockDays
    /\ \A c \in {"Diet", "Exercise", "Sleep"} :
          \E i \in 1..Len(adviceList) : adviceList[i].category = c
    /\ gameState.totalPoints > 0

DietContribution(d) ==
    (IF d.vegRatio >= 30 /\ d.proteinRatio >= 20 THEN 20 ELSE 0)
        + (IF d.sugaryDrinksCount = 0 THEN 10 ELSE 0)
        + (IF d.friedFoodCount = 0 THEN 10 ELSE 0)

ExerciseContribution(e) ==
    (IF e.dailySteps >= 12000 THEN 25 ELSE IF e.dailySteps >= 8000 THEN 15 ELSE 0)
        + (IF e.moderateExerciseMinutes >= 30 THEN 20 ELSE 0)

SleepContribution(d) ==
    (IF d.sleepDuration >= 420 /\ d.sleepDuration <= 540 THEN 20 ELSE 0)
        + (IF ~d.usedPhoneBeforeBed THEN 15 ELSE 0)

\* C8: totalPoints is the sum over the entries of independent per-entry
\* contributions: a diet entry 20 if vegRatio >= 0.3 and proteinRatio >= 0.2,
\* plus 10 if no sugary drink, plus 10 if no fried food; an exercise entry 15
\* if dailySteps >= 8000, 10 more if dailySteps >= 12000 (25 from steps), plus
\* 20 if moderateExerciseMinutes >= 30; a sleep entry 20 if 7 <= sleepDuration
\* <= 9 hours, plus 15 if the phone was not used before bed.
C8_TotalPoints ==
    fn = "calculateGamificationState" =>
        ret.totalPoints = Total(DietContribution, dietData)
                            + Total(ExerciseContribution, exerciseData)
                            + Total(SleepContribution, sleepData)

\* All three lists contribute, one exercise entry with both step bonuses.
C8_Witness ==
    /\ fn = "calculateGamificationState"
    /\ dietData # <<>> /\ sleepData # <<>>
    /\ Len(exerciseData) = 2
    /\ exerciseData[1].dailySteps = 8000 /\ exerciseData[2].dailySteps = 12000
    /\ ret.totalPoints >= 15 + 25 + 20

\* C9: level = floor(totalPoints / 200) + 1 and progressToNextLevel =
\* floor((totalPoints mod 200) * 100 / 200), so level >= 1 and the progress is
\* an integer in 0..99; one exercise entry of 12000 steps and fewer than 30
\* moderate minutes gives 25 points, level 1, progress 12.
C9_LevelAndProgress ==
    fn = "calculateGamificationState" =>
        /\ ret.level = (ret.totalPoints \div 200) + 1
        /\ ret.progressToNextLevel = ((ret.totalPoints % 200) * 100) \div 200
        /\ ret.level >= 1
        /\ ret.progressToNextLevel \in 0..99
        /\ dietData = <<>> /\ sleepData = <<>> /\ Len(exerciseData) = 1
               /\ exerciseData[1].dailySteps = 12000
               /\ exerciseData[1].moderateExerciseMinutes < 30
             => ret.totalPoints = 25 /\ ret.level = 1 /\ ret.progressToNextLevel = 12

\* Enough points for the second level, part of the way to the third.
C9_Witness ==
    /\ fn = "calculateGamificationState"
    /\ ret.totalPoints > 200
    /\ ret.level = 2
    /\ ret.progressToNextLevel > 0

\* Position p comes before position q when s is sorted ascending by date,
\* entries of equal date in the order given.
PrecedesByDate(s, p, q) ==
    s[p].date < s[q].date \/ (s[p].date = s[q].date /\ p < q)

\* The position in s of the entry that is k-th after sorting.
AtRank(s, k) ==
    CHOOSE q \in 1..Len(s) :
        Cardinality({p \in 1..Len(s) : PrecedesByDate(s, p, q)}) = k - 1

\* n entries adjacent after sorting, each of at least 7 hours.
HasRun(s, n) ==
    \E k \in 1..(Len(s) - n + 1) :
        \A j \in 0..(n - 1) : s[AtRank(s, k + j)].sleepDuration >= 420

IsUnlocked(state, id) ==
    \E i \in 1..Len(state.badges) :
        state.badges[i].id = id /\ state.badges[i].isUnlocked

\* C10: the sleep_streak badge is unlocked iff, after sorting the sleep
\* entries ascending by date, at least 3 entries adjacent in the sorted list
\* (by position, whatever their dates) have each sleepDuration >= 7; an entry
\* below 7 ends the run.  For durations 6,6,6,8,8,8,8 in date order the
\* longest run is 4 and the badge is unlocked.
C10_SleepStreak ==
    fn = "calculateGamificationState" =>
        /\ IsUnlocked(ret, "sleep_streak") <=> HasRun(sleepData, 3)
        /\ Len(sleepData) = 7
               /\ (\A i \in 1..7 : sleepData[i].date = i)
               /\ (\A i \in 1..7 : sleepData[i].sleepDuration = IF i <= 3 THEN 360 ELSE 480)
             => /\ maxSleepStreak(sleepData) = 4
                /\ HasRun(sleepData, 4) /\ ~HasRun(sleepData, 5)
                /\ IsUnlocked(ret, "sleep_streak")

\* The badge is unlocked for a list given out of date order in which no three
\* entries adjacent as given have each 7 hours: the run exists after sorting
\* only.
C10_Witness ==
    /\ fn = "calculateGamificationState"
    /\ IsUnlocked(ret, "sleep_streak")
    /\ Len(sleepData) = 4
    /\ \E i \in 1..3 : sleepData[i].date > sleepData[i + 1].date
    /\ \A i \in 1..2 : \E j \in 0..2 : sleepData[i + j].sleepDuration < 420

IdsOf(items) == [i \in 1..Len(items) |-> items[i].id]

\* C11: in every result of calculateGamificationState the badge list is the
\* four catalog badges first_step, step_master, sleep_streak, clean_eater;
\* first_step is unlocked iff there is an exercise entry, step_master iff
\* some exercise entry has dailySteps >= 10000, clean_eater iff at least 3
\* diet entries have no sugary drink, each whatever the other two are.
C11_OrderFreeBadges ==
    fn = "calculateGamificationState" =>
        /\ IdsOf(ret.badges) = <<"first_step", "step_master", "sleep_streak", "clean_eater">>
        /\ IsUnlocked(ret, "first_step") <=> exerciseData # <<>>
        /\ IsUnlocked(ret, "step_master")
              <=> \E i \in 1..Len(exerciseData) : StepsOf(exerciseData[i]) >= 10000
        /\ IsUnlocked(ret, "clean_eater")
              <=> Cardinality({i \in 1..Len(dietData) : SugaryOf(dietData[i]) = 0}) >= 3

\* first_step without step_master, one entry one step short of 10000.
C11_Witness ==
    /\ fn = "calculateGamificationState"
    /\ IsUnlocked(ret, "first_step")
    /\ ~IsUnlocked(ret, "step_master")
    /\ \E i \in 1..Len(exerciseData) : StepsOf(exerciseData[i]) = 9999

\* clean_eater unlocked by exactly three of four diet entries.
C11_WitnessCleanEater ==
    /\ fn = "calculateGamificationState"
    /\ IsUnlocked(ret, "clean_eater")
    /\ Len(dietData) = 4
    /\ Cardinality({i \in 1..Len(dietData) : SugaryOf(dietData[i]) = 0}) = 3

ChallengeAt(state, i, id, target, current) ==
    state.challenges[i] = [id |-> id, target |-> target, current |-> current,
                            isCompleted |-> current >= target]

\* C12: in every result of calculateGamificationState the challenge list is
\* weekly_steps, active_week, balanced_diet with targets 50000, 150 and 5;
\* current is the sum of dailySteps, the sum of moderateExerciseMinutes and
\* the number of diet entries with vegRatio >= 0.3 and proteinRatio >= 0.2
\* over the whole input, not capped at the target; isCompleted iff
\* current >= target.
C12_Challenges ==
    fn = "calculateGamificationState" =>
        /\ Len(ret.challenges) = 3
        /\ ChallengeAt(ret, 1, "weekly_steps", 50000, Total(StepsOf, exerciseData))
        /\ ChallengeAt(ret, 2, "active_week", 150, Total(ModerateMinutesOf, exerciseData))
        /\ ChallengeAt(ret, 3, "balanced_diet", 5,
                       Cardinality({i \in 1..Len(dietData) :
                           VegOf(dietData[i]) >= 30 /\ ProteinOf(dietData[i]) >= 20}))

\* The steps pass their target while the minutes stay one short of theirs.
C12_Witness ==
    /\ fn = "calculateGamificationState"
    /\ ret.challenges[1].current > 50000 /\ ret.challenges[1].isCompleted
    /\ ret.challenges[2].current = 149 /\ ~ret.challenges[2].isCompleted

InFlight(k) == ~reportRequests[k].settled

\* Where report generation stands: no request yet, a request the service
\* has not answered, or the last request answered by a result or a failure.
ReportPhase ==
    IF reportRequests = <<>> THEN "Idle"
    ELSE IF \E k \in 1..Len(reportRequests) : InFlight(k) THEN "Generating"
    ELSE IF generateWeeklyReportAI(reportRequests[Len(reportRequests)].env).status
                = "fulfilled"
         THEN "Succeeded" ELSE "Failed"

\* C14: report generation goes Idle -> Generating -> Succeeded | Failed.
\* isGeneratingReport is true from the step that calls the service to the
\* step that handles its answer and false otherwise, so every answered
\* request ends with the flag false; aiReportSummary changes in no step
\* but the one that completes a request, which writes it once.
C14_ReportStateMachine ==
    /\ [](/\ ReportPhase = "Idle" => ~isGeneratingReport /\ aiReportSummary = ""
          /\ ReportPhase = "Generating" => isGeneratingReport /\ aiReportSummary = ""
          /\ ReportPhase \in {"Succeeded", "Failed"} =>
                ~isGeneratingReport /\ aiReportSummary # "")
    /\ [][/\ ReportPhase' # ReportPhase =>
                \/ ReportPhase = "Idle" /\ ReportPhase' = "Generating"
                \/ ReportPhase = "Generating" /\ ReportPhase' \in {"Succeeded", "Failed"}
          /\ Len(reportRequests') > Len(reportRequests) =>
                isGeneratingReport' /\ aiReportSummary' = aiReportSummary
          /\ aiReportSummary' # aiReportSummary =>
                /\ ReportPhase = "Generating" /\ ReportPhase' \in {"Succeeded", "Failed"}
                /\ Cardinality({k \in 1..Len(reportRequests) :
                        InFlight(k) /\ reportRequests'[k].settled}) = 1]_vars

\* A request has failed: the promise was rejected, the handler stored its
\* message and cleared the flag.
C14_Witness ==
    /\ ReportPhase = "Failed"
    /\ aiReportSummary = FailedMessage
    /\ ~isGeneratingReport

\* The three ways the service fails.
ServiceFails(env) == ~env.apiKey \/ env.response = "throws" \/ env.response = ""

FallbackMessages == {FailedMessage, ServiceErrorMessage, EmptyResponseMessage}

\* C15: a request whose service call fails (no API key, a throwing call, an
\* empty text) ends with a non-empty fallback message in aiReportSummary
\* and the App still mounted; the service was called once for it; the step
\* that handles the failure leaves the lists, the advice and the game state
\* as they were.
C15_ServiceFailure ==
    /\ [](\A k \in 1..Len(reportRequests) :
            /\ reportRequests[k].serviceCalls = 1
            /\ reportRequests[k].settled /\ ServiceFails(reportRequests[k].env) =>
                  /\ aiReportSummary # ""
                  /\ aiReportSummary \in FallbackMessages
                  /\ ~crashed)
    /\ [][\A k \in 1..Len(reportRequests) :
            InFlight(k) /\ reportRequests'[k].settled /\ ServiceFails(reportRequests[k].env)
                => UNCHANGED <<dietData, exerciseData, sleepData, adviceList, gameState>>]_vars

\* The service answered with an empty text and the summary shows the
\* message for that, over the mock week.
C15_Witness ==
    /\ Len(reportRequests) = 1
    /\ reportRequests[1].settled
    /\ reportRequests[1].env = [apiKey |-> TRUE, response |-> ""]
    /\ aiReportSummary = EmptyResponseMessage
    /\ Len(dietData) = MockDays

\* ---------------------------------------------------------------------
\* The stored layout at start
\* ---------------------------------------------------------------------

\* App.tsx:215-218 runs once, in the first render: while nothing has been
\* saved over it, the stored document is the one the initializer read.
\* C17: when the stored layout document exists and does not parse, the
\* layout starts as DEFAULT_LAYOUT and the App does not crash.
C17_ParseFallback ==
    storedLayout.exists /\ ~storedLayout.wellFormed =>
        ~crashed /\ dashboardLayout = DEFAULT_LAYOUT

\* ---------------------------------------------------------------------
\* The entry forms
\* ---------------------------------------------------------------------

\* Request k is answered in this step, by a failure, to the form that made it.
AnalysisFails(k) ==
    /\ ~foodRequests[k].settled
    /\ foodRequests'[k].settled
    /\ foodRequests[k].mounted
    /\ analyzeFoodImage(foodRequests[k].env).status = "rejected"

\* The form that saw request k fail is still shown.
FellBackToManualEntry(k) ==
    /\ foodRequests[k].settled
    /\ foodRequests[k].mounted
    /\ analyzeFoodImage(foodRequests[k].env).status = "rejected"

\* A file of the form that is shown could not be read in this step: a
\* reader of that form is done and no request was made.
ReadFails ==
    /\ Len(readers') < Len(readers)
    /\ foodRequests' = foodRequests
    /\ \A k \in 1..Len(readers) : readers[k].mounted

\* What the diet form saves of the fields typed into it: the date and the
\* calories as they are, and 0 for a number that was not typed.
SavedAsTyped(formData) ==
    [f \in {"date", "calorieIntake", "vegRatio", "proteinRatio", "starchRatio",
             "sugaryDrinksCount", "friedFoodCount"} |->
        IF f \in DOMAIN formData THEN formData[f] ELSE 0]

\* C16: the step in which an analysis fails, by the service or by the read
\* of the file, leaves formData as it was, sets analyzing to false and
\* saves no diet entry; in the form that saw the failure, a submit with
\* calorieIntake entered is accepted: it can be made, and the step that
\* saves an entry from that form saves what was typed, shows no alert and
\* returns to the dashboard.
C16_ManualFallback ==
    /\ [][(ReadFails \/ \E k \in 1..Len(foodRequests) : AnalysisFails(k)) =>
                /\ dietForm'.formData = dietForm.formData
                /\ ~dietForm'.analyzing
                /\ dietData' = dietData
                /\ activeTab' = activeTab]_vars
    /\ [](\A k \in 1..Len(foodRequests) :
            /\ FellBackToManualEntry(k)
            /\ Interactive
            /\ activeTab = "DIET"
            /\ "calorieIntake" \in DOMAIN dietForm.formData
            /\ Submitted < MaxFormSubmits
            => ENABLED DietFormSubmit)
    /\ [][(/\ \E k \in 1..Len(foodRequests) : FellBackToManualEntry(k)
           /\ Len(dietData') = Len(dietData) + 1) =>
                /\ "calorieIntake" \in DOMAIN dietForm.formData
                /\ dietData' = Append(dietData, SavedAsTyped(dietForm.formData))
                /\ alerts' = alerts
                /\ activeTab' = "DASHBOARD"]_vars

\* An analysis failed in a form that had the calories typed in, and the
\* entry saved afterwards from that form holds what was typed.
C16_Witness ==
    \E k \in 1..Len(foodRequests) :
        /\ foodRequests[k].handled
        /\ analyzeFoodImage(foodRequests[k].env).status = "rejected"
        /\ Len(dietData) = foodRequests[k].dietsBefore + 1
        /\ dietData[Len(dietData)] = DietEntry(Today, 700, 0, 0, 0, 0, 0)
        /\ AnalysisFailedAlert \in {alerts[i] : i \in 1..Len(alerts)}

\* A number that is defined: not NaN.
IsDefinedNumber(x) == x # NaN

\* C18: no entry with a missing or malformed numeric field reaches the
\* engines: every entry of dietData, exerciseData and sleepData has a
\* defined number in each of its numeric fields.
C18_NumericFieldsDefined ==
    /\ \A i \in 1..Len(dietData) :
          \A f \in {"calorieIntake", "vegRatio", "proteinRatio", "starchRatio",
                     "sugaryDrinksCount", "friedFoodCount"} :
              IsDefinedNumber(dietData[i][f])
    /\ \A i \in 1..Len(exerciseData) :
          \A f \in {"dailySteps", "moderateExerciseMinutes", "totalSittingMinutes"} :
              IsDefinedNumber(exerciseData[i][f])
    /\ \A i \in 1..Len(sleepData) : IsDefinedNumber(sleepData[i].sleepDuration)

\* ---------------------------------------------------------------------
\* The dashboard layout
\* ---------------------------------------------------------------------

\* C19: a mounted App starts with the layout of the stored document when
\* there is one and with DEFAULT_LAYOUT when there is none, or none but the
\* empty string, which holds no document; and whenever no
\* effect is pending, after an add, a remove, a report of the grid or a
\* reset, the stored document is the serialisation of the current layout.
C19_LayoutLifecycle ==
    /\ ~crashed /\ "mockData" \in effects =>
          dashboardLayout = IF storedLayout.exists /\ ~storedLayout.empty
                            THEN storedLayout.value ELSE DEFAULT_LAYOUT
    /\ Interactive => storedLayout = JSONstringify(dashboardLayout)

\* The first widget was resized, the advice widget is gone, a report widget
\* was added and is stored with y null, and no effect is pending.
C19_Witness ==
    /\ Interactive
    /\ Len(dashboardLayout) > 1
    /\ dashboardLayout[1].w = 5
    /\ \A i \in 1..Len(dashboardLayout) : dashboardLayout[i].id # "advice"
    /\ dashboardLayout[Len(dashboardLayout)].type = "AI_REPORT"
    /\ dashboardLayout[Len(dashboardLayout)].y = Infinity
    /\ storedLayout.value[Len(dashboardLayout)].y = Null

\* A list holds entries of three days in a row, each of 7 hours or more.
ThreeConsecutiveDays(sleeps) ==
    \E i, j, k \in 1..Len(sleeps) :
        /\ sleeps[j].date = sleeps[i].date + 1
        /\ sleeps[k].date = sleeps[i].date + 2
        /\ \A n \in {i, j, k} : sleeps[n].sleepDuration >= 420

\* C20: the sleep_streak badge is unlocked only if the sleep entries hold
\* three entries on three consecutive calendar days, each of 7 hours or
\* more.
C20_ConsecutiveDays ==
    fn = "calculateGamificationState" /\ IsUnlocked(ret, "sleep_streak")
        => ThreeConsecutiveDays(sleepData)

\* ---------------------------------------------------------------------
\* The duration of a night
\* ---------------------------------------------------------------------

\* The minute of the day a string "HH:MM" names.
ClockMinutes(time) == CHOOSE n \in 0..1439 : time = TimeStr(n \div 60, n % 60)

\* C21: for bed time b and wake time w, both HH:MM, calculateDuration is
\* w - b when w >= b and w - b + 24 hours when w < b, and so at least 0 and
\* less than 24 hours (in minutes: less than 1440).
C21_Duration ==
    fn = "calculateDuration" =>
        /\ ret = IF ClockMinutes(sleepForm.wakeTime) >= ClockMinutes(sleepForm.bedTime)
                 THEN ClockMinutes(sleepForm.wakeTime) - ClockMinutes(sleepForm.bedTime)
                 ELSE ClockMinutes(sleepForm.wakeTime) - ClockMinutes(sleepForm.bedTime)
                          + 1440
        /\ ret >= 0
        /\ ret < 1440

\* 23:00 to 07:00 gives 8 hours.
C21_Witness ==
    /\ fn = "calculateDuration"
    /\ sleepForm.bedTime = TimeStr(23, 0)
    /\ sleepForm.wakeTime = TimeStr(7, 0)
    /\ ret = 480

\* ---------------------------------------------------------------------
\* Badges over time
\* ---------------------------------------------------------------------

BadgeIds == {"first_step", "step_master", "sleep_streak", "clean_eater"}

\* C22: once a badge is unlocked it stays unlocked while entries are only
\* appended.  The game state a recompute replaces after the second
\* submission or a later one was computed after a submission; a badge
\* unlocked in it is unlocked in the game state that replaces it.
C22_BadgesStayUnlocked ==
    [][Submitted >= 2 =>
          \A id \in BadgeIds :
              IsUnlocked(gameState, id) => IsUnlocked(gameState', id)]_vars

\* The sleep list in the order a permutation of its positions gives.
Reordered(sleeps, p) == [i \in 1..Len(sleeps) |-> sleeps[p[i]]]

\* C23: the sleep_streak badge is the same for any two sleep lists that are
\* permutations of each other, entries of one date included.
C23_OrderIndependent ==
    fn = "calculateGamificationState" =>
        \A p \in Permutations(1..Len(sleepData)) :
            IsUnlocked(calculateGamificationState(dietData, exerciseData,
                                                  Reordered(sleepData, p)),
                       "sleep_streak")
                <=> IsUnlocked(ret, "sleep_streak")

\* ---------------------------------------------------------------------
\* Overlapping food analyses
\* ---------------------------------------------------------------------

\* The requests of the mounted diet form that have not settled.
OutstandingAnalyses ==
    {k \in 1..Len(foodRequests) : foodRequests[k].mounted /\ ~foodRequests[k].settled}

\* C24: analyzing is true whenever at least one analyzeFoodImage request of
\* the mounted form is outstanding, a second upload made before the first
\* has completed included.
C24_AnalyzingWhileOutstanding ==
    OutstandingAnalyses # {} => dietForm.analyzing

\* ---------------------------------------------------------------------
\* One report per session
\* ---------------------------------------------------------------------

\* Some request has been answered.
SomeReportCompleted == \E k \in 1..Len(reportRequests) : reportRequests[k].settled

\* C25: a report request starts only while isGeneratingReport is false and
\* aiReportSummary is empty; at most one request is in flight; once a
\* request has completed, aiReportSummary is non-empty and stays so, no
\* other request was made and none can start.
C25_OneReport ==
    /\ [](/\ Cardinality({k \in 1..Len(reportRequests) : InFlight(k)}) <= 1
          /\ SomeReportCompleted =>
                /\ aiReportSummary # ""
                /\ Len(reportRequests) = 1
                /\ ~ENABLED handleGenerateReport)
    /\ [][/\ Len(reportRequests') > Len(reportRequests) =>
                ~isGeneratingReport /\ aiReportSummary = ""
          /\ aiReportSummary # "" => aiReportSummary' = aiReportSummary]_vars

\* A request has completed and the report is open: the summary is there,
\* nothing is being generated, and the button is gone.
C25_Witness ==
    /\ SomeReportCompleted
    /\ Interactive
    /\ activeTab = "REPORT"
    /\ ~isGeneratingReport
    /\ aiReportSummary # ""
    /\ ~GenerateButtonShown

\* ---------------------------------------------------------------------
\* Widget ids
\* ---------------------------------------------------------------------

\* C26: the ids of the widgets of the dashboard layout are pairwise
\* distinct after any sequence of additions, removals and layout changes,
\* so that removing by id removes exactly one widget.
C26_DistinctIds ==
    \A i, j \in 1..Len(dashboardLayout) :
        dashboardLayout[i].id = dashboardLayout[j].id => i = j

\* ---------------------------------------------------------------------
\* The frame of a submission
\* ---------------------------------------------------------------------

\* The number of entries of the three lists.
Entries == Len(dietData) + Len(exerciseData) + Len(sleepData)

\* C27: a step that adds an entry is the submit handler of the form that
\* is open; it appends the submitted entry to its own list and keeps the
\* earlier entries in their order, leaves the other two lists, the
\* dashboard layout and aiReportSummary as they are, and makes DASHBOARD
\* the active tab.
C27_SubmitFrame ==
    [][Entries' = Entries + 1 =>
          /\ activeTab \in {"DIET", "EXERCISE", "SLEEP"}
          /\ activeTab = "DIET" =>
                /\ \E data \in SubmittedDiets : dietData' = Append(dietData, data)
                /\ exerciseData' = exerciseData /\ sleepData' = sleepData
          /\ activeTab = "EXERCISE" =>
                /\ \E data \in SubmittedExercises :
                      exerciseData' = Append(exerciseData, data)
                /\ dietData' = dietData /\ sleepData' = sleepData
          /\ activeTab = "SLEEP" =>
                /\ \E data \in SubmittedSleeps : sleepData' = Append(sleepData, data)
                /\ dietData' = dietData /\ exerciseData' = exerciseData
          /\ dashboardLayout' = dashboardLayout
          /\ aiReportSummary' = aiReportSummary
          /\ activeTab' = "DASHBOARD"]_vars

\* A sleep entry has just been submitted after a diet entry: it is the last
\* of its list, the dashboard is shown and the recompute is pending.
C27_Witness ==
    /\ Len(dietData) = MockDays + 1
    /\ Len(exerciseData) = MockDays
    /\ Len(sleepData) = MockDays + 1
    /\ sleepData[Len(sleepData)] \in SubmittedSleeps
    /\ dietData[Len(dietData)] \in SubmittedDiets
    /\ activeTab = "DASHBOARD"
    /\ effects = {"recompute"}

\* ---------------------------------------------------------------------
\* Layout changes reported by the grid
\* ---------------------------------------------------------------------

\* The position in a grid report of the first item of a widget id, or 0.
FirstItem(report, id) ==
    IF \E k \in 1..Len(report) : report[k].i = id
    THEN CHOOSE k \in 1..Len(report) :
            report[k].i = id /\ \A j \in 1..Len(report) : report[j].i = id => k <= j
    ELSE 0

\* The fields handleLayoutChange may write.
Geometry == {"x", "y", "w", "h"}

\* C28: handleLayoutChange hands on the same widgets in the same order; a
\* widget whose id is that of a grid item takes x, y, w and h of the first
\* such item and keeps every other field, id, type and title among them; a
\* widget with no grid item is handed on as it is.
C28_LayoutChange ==
    fn = "handleLayoutChange" =>
        /\ Len(ret) = Len(dashboardLayout)
        /\ \A k \in 1..Len(dashboardLayout) :
              /\ DOMAIN ret[k] = DOMAIN dashboardLayout[k]
              /\ \A f \in DOMAIN dashboardLayout[k] \ Geometry :
                    ret[k][f] = dashboardLayout[k][f]
              /\ IF FirstItem(calls[1], dashboardLayout[k].id) = 0
                 THEN ret[k] = dashboardLayout[k]
                 ELSE \A f \in Geometry :
                        ret[k][f] = calls[1][FirstItem(calls[1], dashboardLayout[k].id)][f]

\* The grid reported the first widget moved and resized, and an item of a
\* widget the layout does not have: the first widget has the new geometry,
\* the widget added last, not reported, still has y = Infinity.
C28_Witness ==
    /\ fn = "handleLayoutChange"
    /\ Len(dashboardLayout) = 7
    /\ Len(calls[1]) = 2
    /\ calls[1][1].i = "summary" /\ calls[1][1].x = 3 /\ calls[1][1].w = 5
    /\ calls[1][2].i = "removed"
    /\ ret[1].x = 3 /\ ret[1].w = 5 /\ ret[1].title = WIDGET_TITLES["DAILY_SUMMARY"]
    /\ ret[7] = dashboardLayout[7] /\ ret[7].y = Infinity
===========================================================================
